---- MODULE Spec2Model ----
(***************************************************************************)
(* A model of the CSV ingestion pipeline of src/common.c:                  *)
(*   validateInputDistributionCSVHeader, parseFloatChecked /               *)
(*   parseDoubleChecked and readInputDistributionsFromCSV.                 *)
(*                                                                         *)
(* C strings are sequences of one-character strings, so that strtok_r,     *)
(* strncmp, strstr, isspace and strtod are computed character by           *)
(* character.  One call of readInputDistributionsFromCSV is a state        *)
(* machine whose position is pc; fgets is the environment: each iteration  *)
(* of the while loop receives one line (or end of file) and the action     *)
(* runs the whole loop body on it.                                         *)
(***************************************************************************)
EXTENDS Integers, Sequences, FiniteSets, TLC

\* ------------------------------------------------------------------ bounds

\* The capacity of a per-column sample buffer.  The source sets 10000
\* (src/common.h:44); the model runs the same code with a small capacity so
\* that the first excess row is reachable.
kCommonConstantMaxNumberOfInputSamples == 2

\* ------------------------------------------------------- program constants

kCommonConstantReturnTypeError == 1
kCommonConstantReturnTypeSuccess == 0

\* ------------------------------------------------------------ C strings

\* isspace((unsigned char)t) in the "C" locale.  TLA+ has no escape for the
\* vertical tab, the sixth whitespace character of isspace.
safeIsspace(t) == t \in {" ", "\t", "\n", "\f", "\r"}

Digits == {"0", "1", "2", "3", "4", "5", "6", "7", "8", "9"}

DigitValue(c) ==
    CASE c = "0" -> 0 [] c = "1" -> 1 [] c = "2" -> 2 [] c = "3" -> 3
      [] c = "4" -> 4 [] c = "5" -> 5 [] c = "6" -> 6 [] c = "7" -> 7
      [] c = "8" -> 8 [] c = "9" -> 9

\* The suffix of s from (1-based) position k on.
Drop(s, k) == SubSeq(s, k, Len(s))

\* `while (safeIsspace(*token)) token++`
RECURSIVE TrimLeadingWhitespace(_)
TrimLeadingWhitespace(token) ==
    IF token # <<>> /\ safeIsspace(Head(token))
    THEN TrimLeadingWhitespace(Tail(token))
    ELSE token

\* The length of the longest prefix of s holding no delimiter.
RECURSIVE SpanToDelimiter(_)
SpanToDelimiter(s) ==
    IF s = <<>> \/ Head(s) = "," THEN 0 ELSE 1 + SpanToDelimiter(Tail(s))

\* The tokens that the calls strtok_r(str, ",", &state), strtok_r(NULL, ...)
\* return until NULL: leading delimiters are skipped, so an empty field
\* yields no token.
RECURSIVE strtok_r(_)
strtok_r(str) ==
    IF str = <<>> THEN <<>>
    ELSE IF Head(str) = "," THEN strtok_r(Tail(str))
    ELSE LET n == SpanToDelimiter(str)
         IN  <<SubSeq(str, 1, n)>> \o strtok_r(Drop(str, n + 1))

\* strncmp(token, expected, strlen(expected)) == 0: a token shorter than
\* expected differs from it at its terminating NUL.
strncmpEqual(token, expected) ==
    /\ Len(token) >= Len(expected)
    /\ SubSeq(token, 1, Len(expected)) = expected

\* strstr(token, "Ux") != NULL
strstrUx(token) ==
    \E i \in 1..(Len(token) - 1) : token[i] = "U" /\ token[i + 1] = "x"

\* ------------------------------------------------------ numeric parser

\* The number of leading decimal digits of s.
RECURSIVE DigitSpan(_)
DigitSpan(s) ==
    IF s # <<>> /\ Head(s) \in Digits THEN 1 + DigitSpan(Tail(s)) ELSE 0

\* The value of a sequence of decimal digits.
RECURSIVE DigitsValue(_)
DigitsValue(s) ==
    IF s = <<>> THEN 0
    ELSE 10 * DigitsValue(SubSeq(s, 1, Len(s) - 1)) + DigitValue(s[Len(s)])

\* strtod / strtof on the characters of the model (digits, sign, whitespace
\* and letters other than a number's): leading whitespace, an optional
\* sign, decimal digits.  [consumed, value]: consumed is FALSE when
\* end == str.  The tokens of the model are short, so that ERANGE, the
\* third outcome, does not arise.
strtod(str) ==
    LET s    == TrimLeadingWhitespace(str)
        neg  == s # <<>> /\ Head(s) = "-"
        sign == s # <<>> /\ Head(s) \in {"-", "+"}
        body == IF sign THEN Tail(s) ELSE s
        n    == DigitSpan(body)
        v    == DigitsValue(SubSeq(body, 1, n))
    IN  [consumed |-> n > 0, value |-> IF neg THEN 0 - v ELSE v]

\* strtof: the same prefix at single precision; the small integers of the
\* model are exact at both widths.
strtof(str) == strtod(str)

\* [returnCode, written, out]: written says whether *out was assigned.
parseFloatChecked(str) ==
    LET tmp == strtof(str)
    IN  IF ~tmp.consumed
        THEN [returnCode |-> kCommonConstantReturnTypeError, written |-> FALSE, out |-> 0]
        ELSE [returnCode |-> kCommonConstantReturnTypeSuccess, written |-> TRUE, out |-> tmp.value]

parseDoubleChecked(str) ==
    LET tmp == strtod(str)
    IN  IF ~tmp.consumed
        THEN [returnCode |-> kCommonConstantReturnTypeError, written |-> FALSE, out |-> 0]
        ELSE [returnCode |-> kCommonConstantReturnTypeSuccess, written |-> TRUE, out |-> tmp.value]

\* ------------------------------------------------------ integer parser

\* The widths in bits of the C types int and long.
IntWidth == 4
LongWidth == 8

INT_MAX == 2^(IntWidth - 1) - 1
INT_MIN == 0 - 2^(IntWidth - 1)
LONG_MAX == 2^(LongWidth - 1) - 1
LONG_MIN == 0 - 2^(LongWidth - 1)

\* strtol(str, &end, 10): leading whitespace, an optional sign, decimal
\* digits.  [consumed, value, erange]: consumed is FALSE when end == str; a
\* value outside the range of long is clamped and errno set to ERANGE.
strtol(str) ==
    LET s    == TrimLeadingWhitespace(str)
        neg  == s # <<>> /\ Head(s) = "-"
        sign == s # <<>> /\ Head(s) \in {"-", "+"}
        body == IF sign THEN Tail(s) ELSE s
        n    == DigitSpan(body)
        v    == DigitsValue(SubSeq(body, 1, n))
        tmp  == IF neg THEN 0 - v ELSE v
    IN  [consumed |-> n > 0,
         value    |-> IF tmp > LONG_MAX THEN LONG_MAX
                      ELSE IF tmp < LONG_MIN THEN LONG_MIN ELSE tmp,
         erange   |-> tmp > LONG_MAX \/ tmp < LONG_MIN]

\* Mutant: the test against INT_MIN left out.
OutsideIntAboveOnly(tmp) == INT_MAX < tmp

\* `(tmp < INT_MIN) || (INT_MAX < tmp)`
OutsideInt(tmp) == (tmp < INT_MIN) \/ (INT_MAX < tmp)

\* `(int)tmp`: the low IntWidth bits of tmp, as a signed value.
IntCast(tmp) == ((tmp - INT_MIN) % 2^IntWidth) + INT_MIN

\* [returnCode, written, out]: written says whether *out was assigned.
parseIntChecked(str) ==
    LET tmp == strtol(str)
    IN  IF tmp.erange
        THEN [returnCode |-> kCommonConstantReturnTypeError, written |-> FALSE, out |-> 0]
        ELSE IF ~tmp.consumed
        THEN [returnCode |-> kCommonConstantReturnTypeError, written |-> FALSE, out |-> 0]
        ELSE IF OutsideInt(tmp.value)
        THEN [returnCode |-> kCommonConstantReturnTypeError, written |-> FALSE, out |-> 0]
        ELSE [returnCode |-> kCommonConstantReturnTypeSuccess, written |-> TRUE,
              out |-> IntCast(tmp.value)]

\* ----------------------------------------------- floating-point values

\* The number of significand bits of the C types float and double.
FLT_MANT_DIG == 5
DBL_MANT_DIG == 7

\* The significand bits of the routines' element type.
MantissaBits(type) == IF type = "Float" THEN FLT_MANT_DIG ELSE DBL_MANT_DIG

\* A finite binary floating-point value m * 2^e, written with m odd (or
\* m = 0 and e = 0), so that equal values are equal records.  The values of
\* the model stay far from the exponent limits: no overflow, no underflow,
\* no infinity and no NaN arise; negative zero is not told from zero.
RECURSIVE FloatValue(_, _)
FloatValue(m, e) ==
    IF m = 0 THEN [m |-> 0, e |-> 0]
    ELSE IF m % 2 = 0 THEN FloatValue(m \div 2, e + 1)
    ELSE [m |-> m, e |-> e]

Magnitude(i) == IF i < 0 THEN 0 - i ELSE i

\* The value (num / den) * 2^e, den > 0, rounded to `bits` significand
\* bits, to nearest and ties to even: the rounding of every arithmetic
\* operation and conversion.
RECURSIVE RoundToNearestEven(_, _, _, _)
RoundToNearestEven(bits, num, den, e) ==
    LET a == Magnitude(num)
    IN  IF a = 0 THEN FloatValue(0, 0)
        ELSE IF a >= 2^bits * den THEN RoundToNearestEven(bits, num, 2 * den, e + 1)
        ELSE IF a < 2^(bits - 1) * den THEN RoundToNearestEven(bits, 2 * num, den, e - 1)
        ELSE LET q  == a \div den
                 r  == a % den
                 up == (2 * r > den) \/ (2 * r = den /\ q % 2 = 1)
                 mr == IF up THEN q + 1 ELSE q
             IN  FloatValue(IF num < 0 THEN 0 - mr ELSE mr, e)

\* x + y, x - y, x * y, x / y (y not zero) at `bits` significand bits.
FloatAdd(bits, x, y) ==
    LET e == IF x.e < y.e THEN x.e ELSE y.e
    IN  RoundToNearestEven(bits, x.m * 2^(x.e - e) + y.m * 2^(y.e - e), 1, e)

FloatNegate(x) == [m |-> 0 - x.m, e |-> x.e]

FloatSub(bits, x, y) == FloatAdd(bits, x, FloatNegate(y))

FloatMul(bits, x, y) == RoundToNearestEven(bits, x.m * y.m, 1, x.e + y.e)

FloatDiv(bits, x, y) ==
    RoundToNearestEven(bits, IF y.m < 0 THEN 0 - x.m ELSE x.m, Magnitude(y.m), x.e - y.e)

\* The conversion of a size_t operand to the floating-point type.
FloatFromSize(bits, n) == RoundToNearestEven(bits, n, 1, 0)

\* `(int)x`: the integer part of x (toward zero).
IntFromFloat(x) ==
    IF x.e >= 0 THEN x.m * 2^x.e
    ELSE IF x.m < 0 THEN 0 - ((0 - x.m) \div 2^(0 - x.e))
    ELSE x.m \div 2^(0 - x.e)

\* ------------------------------------------------- mean and variance

\* Mutant: the sample added to sumOfSquares without being squared.
AccumulateWithoutSquare(bits, acc, sample) ==
    [sum          |-> FloatAdd(bits, acc.sum, sample),
     sumOfSquares |-> FloatAdd(bits, acc.sumOfSquares, sample)]

\* The loop body: `sum += dataArray[ii]; sumOfSquares += dataArray[ii] *
\* dataArray[ii];`, every operation rounded on its own.
Accumulate(bits, acc, sample) ==
    [sum          |-> FloatAdd(bits, acc.sum, sample),
     sumOfSquares |-> FloatAdd(bits, acc.sumOfSquares, FloatMul(bits, sample, sample))]

\* The for loop from index ii on.
RECURSIVE AccumulateFrom(_, _, _, _, _)
AccumulateFrom(bits, dataArray, dataArraySize, ii, acc) ==
    IF ii >= dataArraySize THEN acc
    ELSE AccumulateFrom(bits, dataArray, dataArraySize, ii + 1,
                        Accumulate(bits, acc, dataArray[ii]))

\* Mutant: the mean subtracted without being squared.
MeanAndVarianceWithoutSquaredMean(bits, acc, dataArraySize) ==
    LET size == FloatFromSize(bits, dataArraySize)
        mean == FloatDiv(bits, acc.sum, size)
    IN  [mean     |-> mean,
         variance |-> FloatSub(bits, FloatDiv(bits, acc.sumOfSquares, size), mean)]

\* `mean = sum / dataArraySize; variance = sumOfSquares / dataArraySize -
\* (mean * mean);` and the conversion of both to double, which is exact.
MeanAndVariance(bits, acc, dataArraySize) ==
    LET size == FloatFromSize(bits, dataArraySize)
        mean == FloatDiv(bits, acc.sum, size)
    IN  [mean     |-> mean,
         variance |-> FloatSub(bits, FloatDiv(bits, acc.sumOfSquares, size),
                               FloatMul(bits, mean, mean))]

\* calculateMeanAndVarianceOfFloatSamples and ...OfDoubleSamples, which
\* differ in the type of the samples and of the locals; dataArraySize >= 1.
calculateMeanAndVarianceOfSamples(type, dataArray, dataArraySize) ==
    LET bits == MantissaBits(type)
        zero == FloatValue(0, 0)
    IN  MeanAndVariance(bits,
            AccumulateFrom(bits, dataArray, dataArraySize, 0,
                           [sum |-> zero, sumOfSquares |-> zero]),
            dataArraySize)

\* Mutant: the inner loop reads column 0 whatever jj is.
ColumnSampleOfFirstColumn(dataArray, ii, jj) == dataArray[ii][0]

\* `dataArray[ii][jj]`
ColumnSample(dataArray, ii, jj) == dataArray[ii][jj]

\* The inner loop over the rows, for column jj, from row ii on.
RECURSIVE ColumnAccumulateFrom(_, _, _, _, _, _)
ColumnAccumulateFrom(bits, dataArray, dataArrayRows, jj, ii, acc) ==
    IF ii >= dataArrayRows THEN acc
    ELSE LET sample == ColumnSample(dataArray, ii, jj)
         IN  ColumnAccumulateFrom(bits, dataArray, dataArrayRows, jj, ii + 1,
                [sum          |-> FloatAdd(bits, acc.sum, sample),
                 sumOfSquares |-> FloatAdd(bits, acc.sumOfSquares,
                                           FloatMul(bits, sample, sample))])

\* The body of the outer loop for column jj: [mean, variance] as written to
\* meanValueArray[jj] and varianceArray[jj].
ColumnMeanAndVariance(bits, dataArray, dataArrayRows, jj) ==
    LET zero == FloatValue(0, 0)
        acc  == ColumnAccumulateFrom(bits, dataArray, dataArrayRows, jj, 0,
                                     [sum |-> zero, sumOfSquares |-> zero])
        rows == FloatFromSize(bits, dataArrayRows)
        meanValue == FloatDiv(bits, acc.sum, rows)
    IN  [mean     |-> meanValue,
         variance |-> FloatSub(bits, FloatDiv(bits, acc.sumOfSquares, rows),
                               FloatMul(bits, meanValue, meanValue))]

\* calculateMeanAndVarianceOfMultiDimensionalFloatSamples and
\* ...DoubleSamples: the two output arrays after the call, and the set of
\* indices written; dataArrayRows >= 1.
calculateMeanAndVarianceOfMultiDimensionalSamples(type, dataArray, dataArrayRows, dataArrayColumns, meanValueArray, varianceArray) ==
    LET bits == MantissaBits(type)
        written == 0..(dataArrayColumns - 1)
    IN  [meanValueArray |->
            [jj \in DOMAIN meanValueArray |->
                IF jj \in written
                THEN ColumnMeanAndVariance(bits, dataArray, dataArrayRows, jj).mean
                ELSE meanValueArray[jj]],
         varianceArray |->
            [jj \in DOMAIN varianceArray |->
                IF jj \in written
                THEN ColumnMeanAndVariance(bits, dataArray, dataArrayRows, jj).variance
                ELSE varianceArray[jj]]]

\* ------------------------------------------------------------ quantile

\* Mutant: the operands of the difference exchanged.
compareReversed(bits, a, b) ==
    LET diff == FloatSub(bits, b, a)
    IN  (IF diff.m > 0 THEN 1 ELSE 0) - (IF diff.m < 0 THEN 1 ELSE 0)

\* compareFloats / compareDoubles: `diff = a - b; return (diff > 0) -
\* (diff < 0);`
compare(bits, a, b) ==
    LET diff == FloatSub(bits, a, b)
    IN  (IF diff.m > 0 THEN 1 ELSE 0) - (IF diff.m < 0 THEN 1 ELSE 0)

\* qsort(dataArrayCopy, dataArraySize, ..., compare): the arrangement of the
\* elements in which compare is never positive for an element and a later
\* one, built by insertion; `sorted` is a sequence.
RECURSIVE InsertInOrder(_, _, _)
InsertInOrder(bits, sorted, element) ==
    IF sorted = <<>> THEN <<element>>
    ELSE IF compare(bits, element, Head(sorted)) < 0 THEN <<element>> \o sorted
    ELSE <<Head(sorted)>> \o InsertInOrder(bits, Tail(sorted), element)

RECURSIVE SortFrom(_, _, _, _, _)
SortFrom(bits, base, nmemb, ii, sorted) ==
    IF ii >= nmemb THEN sorted
    ELSE SortFrom(bits, base, nmemb, ii + 1, InsertInOrder(bits, sorted, base[ii]))

qsort(bits, base, nmemb) ==
    LET sorted == SortFrom(bits, base, nmemb, 0, <<>>)
    IN  [ii \in 0..(nmemb - 1) |-> sorted[ii + 1]]

\* Mutant: the index clamped to the last element.
QuantileIndexClamped(bits, quantilePercentage, dataArraySize) ==
    LET index == IntFromFloat(FloatMul(bits, quantilePercentage,
                                       FloatFromSize(bits, dataArraySize)))
    IN  IF index > dataArraySize - 1 THEN dataArraySize - 1 ELSE index

\* Mutant: the product rounded up to the next integer.
QuantileIndexRoundedUp(bits, quantilePercentage, dataArraySize) ==
    IntFromFloat(FloatMul(bits, quantilePercentage, FloatFromSize(bits, dataArraySize))) + 1

\* `index = (int)(quantilePercentage * dataArraySize);`
QuantileIndex(bits, quantilePercentage, dataArraySize) ==
    IntFromFloat(FloatMul(bits, quantilePercentage, FloatFromSize(bits, dataArraySize)))

\* Mutant: qsort applied to the caller's array instead of to the copy.
calculatePercentageQuantileSortingInPlace(type, dataArray, quantilePercentage, dataArraySize) ==
    LET bits   == MantissaBits(type)
        sorted == qsort(bits, dataArray, dataArraySize)
        index  == QuantileIndex(bits, quantilePercentage, dataArraySize)
    IN  [dataArray     |-> sorted,
         dataArrayCopy |-> sorted,
         index         |-> index,
         withinCopy    |-> index \in 0..(dataArraySize - 1)]

\* calculatePercentageQuantileOfFloatSamples / ...OfDoubleSamples up to the
\* read of dataArrayCopy[index]: the caller's array, the sorted copy, the
\* index, and whether the index lies within the copy.
calculatePercentageQuantileOfSamples(type, dataArray, quantilePercentage, dataArraySize) ==
    LET bits          == MantissaBits(type)
        dataArrayCopy == qsort(bits, dataArray, dataArraySize)
        index         == QuantileIndex(bits, quantilePercentage, dataArraySize)
    IN  [dataArray     |-> dataArray,
         dataArrayCopy |-> dataArrayCopy,
         index         |-> index,
         withinCopy    |-> index \in 0..(dataArraySize - 1)]

\* ---------------------------------------------------- header validator

HeaderResult(code, diag, col) ==
    [returnCode |-> code, diagnostic |-> diag, column |-> col]

\* Mutant: the suffix check left out.
OnlyWhitespaceAfterUnchecked(token, expectedHeaderLength) == TRUE

\* The suffix check of the validator: every character of the token after
\* the expected header is whitespace.
OnlyWhitespaceAfter(token, expectedHeaderLength) ==
    \A ii \in (expectedHeaderLength + 1)..Len(token) : safeIsspace(token[ii])

\* The while (token) loop of the validator, from token number columnCount.
RECURSIVE HeaderLoop(_, _, _, _)
HeaderLoop(tokens, expectedHeaders, numberOfExpectedHeaders, columnCount) ==
    IF columnCount = Len(tokens)
    THEN IF columnCount # numberOfExpectedHeaders
         THEN HeaderResult(kCommonConstantReturnTypeError, "lessHeaderValues", columnCount)
         ELSE HeaderResult(kCommonConstantReturnTypeSuccess, "none", columnCount)
    ELSE IF columnCount = numberOfExpectedHeaders
    THEN HeaderResult(kCommonConstantReturnTypeError, "moreHeaderValues", columnCount)
    ELSE LET token    == TrimLeadingWhitespace(tokens[columnCount + 1])
             expected == expectedHeaders[columnCount + 1]
         IN  IF ~strncmpEqual(token, expected)
             THEN HeaderResult(kCommonConstantReturnTypeError, "headerMismatch", columnCount)
             ELSE IF ~OnlyWhitespaceAfter(token, Len(expected))
             THEN HeaderResult(kCommonConstantReturnTypeError, "trailingCharacters", columnCount)
             ELSE HeaderLoop(tokens, expectedHeaders, numberOfExpectedHeaders,
                             columnCount + 1)

\* Mutant: the tokens are counted before any of them is compared.
validateCountingTokensFirst(actualHeaderRow, expectedHeaders, numberOfExpectedHeaders) ==
    LET tokens == strtok_r(actualHeaderRow)
    IN  IF Len(tokens) < numberOfExpectedHeaders
        THEN HeaderResult(kCommonConstantReturnTypeError, "lessHeaderValues", Len(tokens))
        ELSE IF Len(tokens) > numberOfExpectedHeaders
        THEN HeaderResult(kCommonConstantReturnTypeError, "moreHeaderValues",
                          numberOfExpectedHeaders)
        ELSE HeaderLoop(tokens, expectedHeaders, numberOfExpectedHeaders, 0)

validateInputDistributionCSVHeader(actualHeaderRow, expectedHeaders, numberOfExpectedHeaders) ==
    HeaderLoop(strtok_r(actualHeaderRow), expectedHeaders, numberOfExpectedHeaders, 0)

\* ------------------------------------------------------------ the read

VARIABLES
    numberOfDistributions,    \* argument: the number of expected columns
    expectedHeaders,          \* argument: the expected header names
    inputFilePath,            \* argument: "stdin", a missing file or a file
    inputDistributionsType,   \* "Float" or "Double": which wrapper was called
    pc,                       \* the position of the call
    fp,                       \* "null", "open" or "closed"
    atEndOfFile,              \* the last line read had no newline
    linesRead,                \* the lines fgets has returned, in order
    rowCount,
    sampleCounts,
    uxColumns,
    inputSampleValues,
    allocated,                \* the heap blocks of the call not yet freed
    returnCode,
    diagnostic,               \* the message printed to stderr, "none" if none
    parserCalls,              \* <<row, column>> of every token given to the parser
    sampleWrites,             \* <<row, column, index>> of every buffer write
    inputDistributions,       \* the caller's output array
    outputWrites,             \* how often each entry of it was assigned
    primitiveCalls,           \* the calls of UxHw*DistFromSamples, in order
    callArgs,                 \* the arguments of a call of a routine checked alone
    callResult                \* what that call returned, NoCall before it

\* callArgs and callResult while no call was made.
NoCall == [called |-> FALSE]

\* The arguments of the read, which it never assigns.
arguments ==
    <<numberOfDistributions, expectedHeaders, inputFilePath, inputDistributionsType>>

\* The variables of the routines that are checked on their own.
routine == <<callArgs, callResult>>

vars ==
    <<numberOfDistributions, expectedHeaders, inputFilePath, inputDistributionsType,
      callArgs, callResult, pc, fp, atEndOfFile, linesRead, rowCount, sampleCounts, uxColumns,
      inputSampleValues, allocated, returnCode, diagnostic, parserCalls,
      sampleWrites, inputDistributions, outputWrites, primitiveCalls>>

Columns == 0..(numberOfDistributions - 1)
SampleIndices == 0..(kCommonConstantMaxNumberOfInputSamples - 1)

\* Mutant: the capacity test off by one.
RowLimitReachedLate(count) == count > kCommonConstantMaxNumberOfInputSamples

\* `rowCount >= kCommonConstantMaxNumberOfInputSamples`
RowLimitReached(count) == count >= kCommonConstantMaxNumberOfInputSamples

\* Mutant: the validator's result tested as if errors were negative.
HeaderRejectedIfNegative(result) == result.returnCode < 0

\* `validateInputDistributionCSVHeader(...) != 0`
HeaderRejected(result) == result.returnCode # 0

\* Mutant: the path compared with "-" instead of "stdin".
IsDashPath(path) == path = "-"

\* `strcmp(inputFilePath, "stdin")` is zero.
IsStdinPath(path) == path = "stdin"

\* `columnCount == numberOfDistributions`, tested on every token.
TooManyEntries(columnCount, n) == columnCount = n

\* Mutant: the row test made `columnCount > numberOfDistributions`.
TooFewEntriesOnlyIfMore(columnCount, n) == columnCount > n

\* `columnCount != numberOfDistributions`, tested after the row.
TooFewEntries(columnCount, n) == columnCount # n

\* Mutant: the guard on uxColumns left out.
SkipsNoToken(flags, columnCount) == FALSE

\* `!uxColumns[columnCount]` is false: the token is passed over.
SkipsToken(flags, columnCount) == flags[columnCount]

\* Mutant: the marker looked for on every row.
ClassifiesAsUxOnAnyRow(count, token) == strstrUx(token)

\* `(rowCount == 0) && (strstr(token, "Ux") != NULL)`
ClassifiesAsUx(count, token) == count = 0 /\ strstrUx(token)

\* Mutant: only the token "-" itself is ignored.
shouldIgnoreBareDash(token) == token = <<"-">>

\* The token is '-' followed by whitespace only up to its end.
shouldIgnore(token) ==
    /\ token # <<>>
    /\ Head(token) = "-"
    /\ \A ii \in 2..Len(token) : safeIsspace(token[ii])

parseChecked(type, token) ==
    IF type = "Float" THEN parseFloatChecked(token) ELSE parseDoubleChecked(token)

\* Mutant: the ignored entry counted as a sample.
StoreIgnoredEntryCounted(st, columnCount) ==
    LET index == st.sampleCounts[columnCount]
    IN  [st EXCEPT !.inputSampleValues[columnCount][index] = 0,
                   !.sampleCounts[columnCount] = index + 1,
                   !.sampleWrites = @ \cup {<<st.rowCount, columnCount, index>>}]

\* "Ignore this entry": zero at the fill position, the count left as it is.
StoreIgnoredEntry(st, columnCount) ==
    LET index == st.sampleCounts[columnCount]
    IN  [st EXCEPT !.inputSampleValues[columnCount][index] = 0,
                   !.sampleWrites = @ \cup {<<st.rowCount, columnCount, index>>}]

\* Mutant: the sample stored at the row's index instead of the fill position.
StoreParsedSampleAtRow(st, columnCount, value) ==
    LET index == st.rowCount
    IN  [st EXCEPT !.inputSampleValues[columnCount][index] = value,
                   !.sampleCounts[columnCount] = @ + 1,
                   !.sampleWrites = @ \cup {<<st.rowCount, columnCount, index>>}]

\* Mutant: the sample stored without the count advanced.
StoreParsedSampleUncounted(st, columnCount, value) ==
    LET index == st.sampleCounts[columnCount]
    IN  [st EXCEPT !.inputSampleValues[columnCount][index] = value,
                   !.sampleWrites = @ \cup {<<st.rowCount, columnCount, index>>}]

\* The parsed value at the fill position, and the count advanced.
StoreParsedSample(st, columnCount, value) ==
    LET index == st.sampleCounts[columnCount]
    IN  [st EXCEPT !.inputSampleValues[columnCount][index] = value,
                   !.sampleCounts[columnCount] = index + 1,
                   !.sampleWrites = @ \cup {<<st.rowCount, columnCount, index>>}]

\* The while (token) loop over one data row, from token number columnCount.
\* st holds the locals the loop changes; st.exit is "next" when the row is
\* accepted, "cleanup" after goto cleanup and "return" after the return
\* statement of the too-few-entries check.
RECURSIVE RowLoop(_, _, _)
RowLoop(tokens, columnCount, st) ==
    IF columnCount = Len(tokens)
    THEN IF TooFewEntries(columnCount, st.numberOfDistributions)
         THEN [st EXCEPT !.diagnostic = "lessEntries", !.exit = "return"]
         ELSE st
    ELSE LET token == TrimLeadingWhitespace(tokens[columnCount + 1])
         IN  IF TooManyEntries(columnCount, st.numberOfDistributions)
             THEN [st EXCEPT !.diagnostic = "moreEntries", !.exit = "cleanup"]
             ELSE IF SkipsToken(st.uxColumns, columnCount)
             THEN RowLoop(tokens, columnCount + 1, st)
             ELSE LET st1 == IF ClassifiesAsUx(st.rowCount, token)
                             THEN [st EXCEPT !.uxColumns[columnCount] = TRUE]
                             ELSE st
                  IN  IF shouldIgnore(token)
                      THEN RowLoop(tokens, columnCount + 1,
                                   StoreIgnoredEntry(st1, columnCount))
                      ELSE LET parsed == parseChecked(st1.type, token)
                               st2 == [st1 EXCEPT !.parserCalls =
                                          @ \cup {<<st.rowCount, columnCount>>}]
                           IN  IF parsed.returnCode # kCommonConstantReturnTypeSuccess
                               THEN [st2 EXCEPT !.diagnostic = "notANumber",
                                                !.exit = "cleanup"]
                               ELSE RowLoop(tokens, columnCount + 1,
                                            StoreParsedSample(st2, columnCount, parsed.out))

\* The external primitive UxHwFloatDistFromSamples / UxHwDoubleDistFromSamples:
\* opaque, a value that records the samples and the count it was given.
UxHwDistFromSamples(samples, count) ==
    [kind |-> "distribution",
     fromSamples |-> [k \in 0..(count - 1) |-> samples[k]], count |-> count]

\* An entry of the output array: what the caller left there, or a number
\* taken from a sample buffer.
CallerValue == [kind |-> "caller"]
SampleValue(v) == [kind |-> "sample", value |-> v]

\* ------------------------------------------------------------- inputs

\* The calls of the model: numberOfDistributions with its expected headers.
Calls ==
    { [n |-> 0, headers |-> <<>>],
      [n |-> 1, headers |-> << <<"a">> >>],
      [n |-> 2, headers |-> << <<"a">>, <<"b">> >>] }

Paths == {"stdin", "missing.csv", "data.csv"}

\* fopen(path, "r") succeeds: of the paths of the model only data.csv exists.
FileExists(path) == path = "data.csv"

\* The fields from which the data rows of the model are built: a number, the
\* ignore pattern, a marker value with a numeric prefix and a non-number.
CoreFields == { <<"1">>, <<"-">>, <<"2", "U", "x">>, <<"z">> }

\* With one column the rows also hold an empty field, leading and trailing
\* whitespace, a negative number and a marker without a numeric prefix.
ExtraFields == { <<>>, <<" ", "-", " ">>, <<"-", "3">>, <<"U", "x">>, <<" ", "4", " ">> }

Fields(n) == IF n = 1 THEN CoreFields \cup ExtraFields ELSE CoreFields

RECURSIVE Join(_)
Join(fields) ==
    IF fields = <<>> THEN <<>>
    ELSE IF Len(fields) = 1 THEN fields[1]
    ELSE fields[1] \o <<",">> \o Join(Tail(fields))

\* The data lines of a file read with n expected columns: up to n fields
\* joined by commas, or n fields and one more, ended by a newline; with one
\* column also unended (the last line of a file that lacks its final
\* newline).
DataLines(n) ==
    LET short == UNION { [1..k -> Fields(n)] : k \in 0..n }
        long  == { r \o << <<"1">> >> : r \in [1..n -> Fields(n)] }
        rows  == short \cup long
    IN  { Join(r) \o <<"\n">> : r \in rows }
          \cup (IF n = 1 THEN { Join(r) : r \in rows } \ {<<>>} ELSE {})

HeaderLines ==
    { <<"a", "\n">>,
      <<"a", ",", "b", "\n">>,
      <<" ", "a", " ", ",", "b", " ", "\n">>,
      <<"a", ",", "b", ",", "c", "\n">>,
      <<"a", ",", "B", "\n">>,
      <<"a", ",", "b", "b", "\n">>,
      <<"a">> }

EndsLine(line) == line # <<>> /\ line[Len(line)] = "\n"

\* ------------------------------------------------------------ actions

Init ==
    /\ \E call \in Calls :
          /\ numberOfDistributions = call.n
          /\ expectedHeaders = call.headers
    /\ inputFilePath \in Paths
    /\ inputDistributionsType \in {"Float", "Double"}
    /\ pc = "entry"
    /\ fp = "null"
    /\ atEndOfFile = FALSE
    /\ linesRead = <<>>
    /\ rowCount = -1
    /\ sampleCounts = <<>>
    /\ uxColumns = <<>>
    /\ inputSampleValues = <<>>
    /\ allocated = {}
    /\ returnCode = kCommonConstantReturnTypeError
    /\ diagnostic = "none"
    /\ parserCalls = {}
    /\ sampleWrites = {}
    /\ inputDistributions = [ii \in Columns |-> CallerValue]
    /\ outputWrites = [ii \in Columns |-> 0]
    /\ primitiveCalls = <<>>
    /\ callArgs = NoCall
    /\ callResult = NoCall

\* numberOfDistributions == 0: return success before anything else.
ReturnEmpty ==
    /\ pc = "entry"
    /\ numberOfDistributions = 0
    /\ returnCode' = kCommonConstantReturnTypeSuccess
    /\ pc' = "done"
    /\ UNCHANGED <<routine, arguments, fp, atEndOfFile, linesRead, rowCount,
                   sampleCounts, uxColumns, inputSampleValues, allocated, diagnostic,
                   parserCalls, sampleWrites, inputDistributions, outputWrites,
                   primitiveCalls>>

\* The checkedCalloc calls: zeroed sample arrays, line buffer, flags, counters.
Allocate ==
    /\ pc = "entry"
    /\ numberOfDistributions # 0
    /\ inputSampleValues' = [ii \in Columns |-> [k \in SampleIndices |-> 0]]
    /\ uxColumns' = [ii \in Columns |-> FALSE]
    /\ sampleCounts' = [ii \in Columns |-> 0]
    /\ allocated' = {"inputSampleValues", "buffer", "uxColumns", "sampleCounts"}
    /\ pc' = "open"
    /\ UNCHANGED <<routine, arguments, fp, atEndOfFile, linesRead, rowCount,
                   returnCode, diagnostic, parserCalls, sampleWrites,
                   inputDistributions, outputWrites, primitiveCalls>>

\* strcmp(inputFilePath, "stdin") and fopen.
Open ==
    /\ pc = "open"
    /\ \/ /\ IsStdinPath(inputFilePath)
          /\ diagnostic' = "pipelineNotImplemented"
          /\ returnCode' = kCommonConstantReturnTypeError
          /\ pc' = "cleanup"
          /\ fp' = fp
       \/ /\ ~IsStdinPath(inputFilePath)
          /\ ~FileExists(inputFilePath)
          /\ diagnostic' = "cannotOpen"
          /\ returnCode' = kCommonConstantReturnTypeError
          /\ pc' = "cleanup"
          /\ fp' = fp
       \/ /\ ~IsStdinPath(inputFilePath)
          /\ FileExists(inputFilePath)
          /\ fp' = "open"
          /\ pc' = "loop"
          /\ UNCHANGED <<diagnostic, returnCode>>
    /\ UNCHANGED <<routine, arguments, atEndOfFile, linesRead, rowCount,
                   sampleCounts, uxColumns, inputSampleValues, allocated,
                   parserCalls, sampleWrites, inputDistributions, outputWrites,
                   primitiveCalls>>

\* fgets returns `line`.
Fgets(line) ==
    /\ pc = "loop"
    /\ ~atEndOfFile
    /\ linesRead' = Append(linesRead, line)
    /\ atEndOfFile' = ~EndsLine(line)

\* The loop body with rowCount == -1: the header row.
ReadHeader ==
    /\ rowCount = -1
    /\ \E line \in HeaderLines :
          /\ Fgets(line)
          /\ LET r == validateInputDistributionCSVHeader(
                          line, expectedHeaders, numberOfDistributions)
             IN  IF HeaderRejected(r)
                 THEN /\ returnCode' = kCommonConstantReturnTypeError
                      /\ diagnostic' = r.diagnostic
                      /\ pc' = "cleanup"
                      /\ rowCount' = rowCount
                 ELSE /\ rowCount' = rowCount + 1
                      /\ UNCHANGED <<returnCode, diagnostic, pc>>
    /\ UNCHANGED <<routine, arguments, fp, sampleCounts, uxColumns,
                   inputSampleValues, allocated, parserCalls, sampleWrites,
                   inputDistributions, outputWrites, primitiveCalls>>

\* The loop body with rowCount >= kCommonConstantMaxNumberOfInputSamples.
ReadExcessRow ==
    /\ rowCount # -1
    /\ RowLimitReached(rowCount)
    /\ \E line \in DataLines(numberOfDistributions) : Fgets(line)
    /\ diagnostic' = "tooManyRows"
    /\ returnCode' = kCommonConstantReturnTypeError
    /\ pc' = "cleanup"
    /\ UNCHANGED <<routine, arguments, fp, rowCount, sampleCounts, uxColumns,
                   inputSampleValues, allocated, parserCalls, sampleWrites,
                   inputDistributions, outputWrites, primitiveCalls>>

\* The loop body on a data row.
ReadDataRow ==
    /\ rowCount # -1
    /\ ~RowLimitReached(rowCount)
    /\ \E line \in DataLines(numberOfDistributions) :
          /\ Fgets(line)
          /\ LET st == RowLoop(strtok_r(line), 0,
                          [numberOfDistributions |-> numberOfDistributions,
                           type |-> inputDistributionsType,
                           rowCount |-> rowCount,
                           sampleCounts |-> sampleCounts,
                           uxColumns |-> uxColumns,
                           inputSampleValues |-> inputSampleValues,
                           parserCalls |-> parserCalls,
                           sampleWrites |-> sampleWrites,
                           diagnostic |-> diagnostic,
                           exit |-> "next"])
             IN  /\ sampleCounts' = st.sampleCounts
                 /\ uxColumns' = st.uxColumns
                 /\ inputSampleValues' = st.inputSampleValues
                 /\ parserCalls' = st.parserCalls
                 /\ sampleWrites' = st.sampleWrites
                 /\ diagnostic' = st.diagnostic
                 /\ CASE st.exit = "next" ->
                           /\ rowCount' = rowCount + 1
                           /\ UNCHANGED <<pc, returnCode>>
                      [] st.exit = "cleanup" ->
                           /\ returnCode' = kCommonConstantReturnTypeError
                           /\ pc' = "cleanup"
                           /\ rowCount' = rowCount
                      [] st.exit = "return" ->
                           /\ returnCode' = kCommonConstantReturnTypeError
                           /\ pc' = "done"
                           /\ rowCount' = rowCount
    /\ UNCHANGED <<routine, arguments, fp, allocated, inputDistributions,
                   outputWrites, primitiveCalls>>

\* fgets returns NULL: the loop ends and the file is closed.
ReadEndOfFile ==
    /\ pc = "loop"
    /\ fp' = "closed"
    /\ pc' = "materialize"
    /\ UNCHANGED <<routine, arguments, atEndOfFile, linesRead, rowCount,
                   sampleCounts, uxColumns, inputSampleValues, allocated,
                   returnCode, diagnostic, parserCalls, sampleWrites,
                   inputDistributions, outputWrites, primitiveCalls>>

\* Mutant: the branch on uxColumns[ii] left out.
DistributionWithoutUxBranch(ii) ==
    UxHwDistFromSamples(inputSampleValues[ii], sampleCounts[ii])

\* "Get distributions from collected sample values": the for loop over the
\* columns, then returnCode = success.
DistributionOf(ii) ==
    IF uxColumns[ii]
    THEN SampleValue(inputSampleValues[ii][0])
    ELSE UxHwDistFromSamples(inputSampleValues[ii], sampleCounts[ii])

RECURSIVE PrimitiveCallsFrom(_)
PrimitiveCallsFrom(ii) ==
    IF ii >= numberOfDistributions THEN <<>>
    ELSE (IF uxColumns[ii] THEN <<>> ELSE << <<ii, sampleCounts[ii]>> >>)
            \o PrimitiveCallsFrom(ii + 1)

\* Mutant: `returnCode = kCommonConstantReturnTypeSuccess` left out.
MaterializeWithoutSuccess ==
    /\ pc = "materialize"
    /\ inputDistributions' = [ii \in Columns |-> DistributionOf(ii)]
    /\ outputWrites' = [ii \in Columns |-> outputWrites[ii] + 1]
    /\ primitiveCalls' = primitiveCalls \o PrimitiveCallsFrom(0)
    /\ pc' = "cleanup"
    /\ UNCHANGED <<routine, arguments, fp, atEndOfFile, linesRead, rowCount,
                   sampleCounts, uxColumns, inputSampleValues, allocated,
                   returnCode, diagnostic, parserCalls, sampleWrites>>

Materialize ==
    /\ pc = "materialize"
    /\ inputDistributions' = [ii \in Columns |-> DistributionOf(ii)]
    /\ outputWrites' = [ii \in Columns |-> outputWrites[ii] + 1]
    /\ primitiveCalls' = primitiveCalls \o PrimitiveCallsFrom(0)
    /\ returnCode' = kCommonConstantReturnTypeSuccess
    /\ pc' = "cleanup"
    /\ UNCHANGED <<routine, arguments, fp, atEndOfFile, linesRead, rowCount,
                   sampleCounts, uxColumns, inputSampleValues, allocated,
                   diagnostic, parserCalls, sampleWrites>>

\* The cleanup label: free every block, return returnCode.
Cleanup ==
    /\ pc = "cleanup"
    /\ allocated' = {}
    /\ pc' = "done"
    /\ UNCHANGED <<routine, arguments, fp, atEndOfFile, linesRead, rowCount,
                   sampleCounts, uxColumns, inputSampleValues, returnCode,
                   diagnostic, parserCalls, sampleWrites, inputDistributions,
                   outputWrites, primitiveCalls>>

Next ==
    \/ ReturnEmpty
    \/ Allocate
    \/ Open
    \/ ReadHeader
    \/ ReadExcessRow
    \/ ReadDataRow
    \/ ReadEndOfFile
    \/ Materialize
    \/ Cleanup

Spec == Init /\ [][Next]_vars

\* ------------------------------------- the header validator on its own

\* The longest header row given to the validator.
MaxHeaderRowLength == 5

HeaderAlphabet == {"a", "b", ",", " "}

\* The header rows: every non-empty string over the alphabet (fgets returns
\* no empty line).
HeaderRows == UNION { [1..k -> HeaderAlphabet] : k \in 1..MaxHeaderRowLength }

ExpectedHeaderLists ==
    { << <<"a">> >>,
      << <<"a">>, <<"b">> >>,
      << <<"a", "b">> >>,
      << <<"a">>, <<"a">> >> }

\* The variables of the read while no read is running.
NoRead ==
    /\ numberOfDistributions = 0
    /\ expectedHeaders = <<>>
    /\ inputFilePath = "none"
    /\ inputDistributionsType = "none"
    /\ pc = "none"
    /\ fp = "null"
    /\ atEndOfFile = FALSE
    /\ linesRead = <<>>
    /\ rowCount = -1
    /\ sampleCounts = <<>>
    /\ uxColumns = <<>>
    /\ inputSampleValues = <<>>
    /\ allocated = {}
    /\ returnCode = kCommonConstantReturnTypeError
    /\ diagnostic = "none"
    /\ parserCalls = {}
    /\ sampleWrites = {}
    /\ inputDistributions = <<>>
    /\ outputWrites = <<>>
    /\ primitiveCalls = <<>>

readVars ==
    <<arguments, pc, fp, atEndOfFile, linesRead, rowCount, sampleCounts,
      uxColumns, inputSampleValues, allocated, returnCode, diagnostic,
      parserCalls, sampleWrites, inputDistributions, outputWrites, primitiveCalls>>

\* callArgs of a call of the validator: the row, the expected headers and,
\* when the row was made by altering one character of a validated row, the
\* position altered, the character replaced and what the validator had
\* returned for the row before (0, "none" and -1 otherwise).
HeaderCall(row, expected, position, replaced, before) ==
    [actualHeaderRow |-> row, expectedHeaders |-> expected,
     alteredAt |-> position, replaced |-> replaced, before |-> before]

HeaderInit ==
    /\ NoRead
    /\ callArgs \in { HeaderCall(row, expected, 0, "none", -1) :
                        row \in HeaderRows, expected \in ExpectedHeaderLists }
    /\ callResult = NoCall

\* The call validateInputDistributionCSVHeader(row, expected, number of them).
ValidateHeader ==
    /\ callResult = NoCall
    /\ callResult' = validateInputDistributionCSVHeader(
                         callArgs.actualHeaderRow, callArgs.expectedHeaders,
                         Len(callArgs.expectedHeaders))
    /\ UNCHANGED <<callArgs, readVars>>

\* One character of a validated row is changed to another one and the new
\* row is validated.
AlterHeaderCharacter ==
    /\ callResult # NoCall
    /\ \E i \in 1..Len(callArgs.actualHeaderRow) :
          \E ch \in HeaderAlphabet \ {callArgs.actualHeaderRow[i]} :
             LET row == [callArgs.actualHeaderRow EXCEPT ![i] = ch]
             IN  /\ callArgs' = HeaderCall(row, callArgs.expectedHeaders, i,
                                           callArgs.actualHeaderRow[i],
                                           callResult.returnCode)
                 /\ callResult' = validateInputDistributionCSVHeader(
                                      row, callArgs.expectedHeaders,
                                      Len(callArgs.expectedHeaders))
    /\ UNCHANGED readVars

HeaderNext ==
    \/ ValidateHeader
    \/ AlterHeaderCharacter

SpecHeader == HeaderInit /\ [][HeaderNext]_vars

\* ---------------------------------------- the integer parser on its own

\* The longest string given to the parser.
MaxIntStringLength == 4

IntStringAlphabet == {"0", "1", "2", "8", "9", "-", "+", " ", "x"}

IntStrings == UNION { [1..k -> IntStringAlphabet] : k \in 0..MaxIntStringLength }

ParseIntInit ==
    /\ NoRead
    /\ callArgs \in { [str |-> str] : str \in IntStrings }
    /\ callResult = NoCall

\* The call parseIntChecked(str, &out).
CallParseIntChecked ==
    /\ callResult = NoCall
    /\ callResult' = parseIntChecked(callArgs.str)
    /\ UNCHANGED <<callArgs, readVars>>

ParseIntNext == CallParseIntChecked

SpecParseInt == ParseIntInit /\ [][ParseIntNext]_vars

\* ------------------------------ the mean and variance routines on their own

\* The longest sample array and the largest significand of a sample.
MaxSamples == 3
MaxSampleMantissa == 7

\* The samples: the integers and half-integers -1/2, 0, 1/2, ... up to
\* MaxSampleMantissa, all of them values of both types.
SampleValues == { FloatValue(m, e) : m \in (-1)..MaxSampleMantissa, e \in {-1, 0} }

FloatTypes == {"Float", "Double"}

\* The arguments of a call of the one-dimensional routine.
MeanVarianceCall(type, dataArray, dataArraySize) ==
    [routine |-> "calculateMeanAndVarianceOfSamples", type |-> type,
     dataArray |-> dataArray, dataArraySize |-> dataArraySize]

\* The matrices: <<rows, columns>> and the values of their entries.
MatrixShapes == {<<1, 0>>, <<1, 1>>, <<2, 1>>, <<3, 1>>, <<1, 2>>, <<2, 2>>}
MatrixValues == {FloatValue(-1, 0), FloatValue(5, -1), FloatValue(7, 0)}

\* The caller's output arrays, one entry longer than the number of columns.
OutputArray(columns) == [jj \in 0..columns |-> CallerValue]

\* The arguments of a call of the multi-dimensional routine.
MultiDimensionalCall(type, dataArray, dataArrayRows, dataArrayColumns) ==
    [routine |-> "calculateMeanAndVarianceOfMultiDimensionalSamples",
     type |-> type, dataArray |-> dataArray,
     dataArrayRows |-> dataArrayRows, dataArrayColumns |-> dataArrayColumns,
     meanValueArray |-> OutputArray(dataArrayColumns),
     varianceArray |-> OutputArray(dataArrayColumns)]

MeanVarianceInit ==
    /\ NoRead
    /\ callResult = NoCall
    /\ \E type \in FloatTypes :
          \/ \E n \in 1..MaxSamples :
                \E dataArray \in [0..(n - 1) -> SampleValues] :
                   callArgs = MeanVarianceCall(type, dataArray, n)
          \/ \E shape \in MatrixShapes :
                \E dataArray \in [0..(shape[1] - 1) -> [0..(shape[2] - 1) -> MatrixValues]] :
                   callArgs = MultiDimensionalCall(type, dataArray, shape[1], shape[2])

\* The call calculateMeanAndVarianceOf{Float,Double}Samples(dataArray,
\* dataArraySize).
CallMeanAndVariance ==
    /\ callResult = NoCall
    /\ callArgs.routine = "calculateMeanAndVarianceOfSamples"
    /\ callResult' = calculateMeanAndVarianceOfSamples(
                         callArgs.type, callArgs.dataArray, callArgs.dataArraySize)
    /\ UNCHANGED <<callArgs, readVars>>

\* The call calculateMeanAndVarianceOfMultiDimensional{Float,Double}Samples(
\* dataArray, dataArrayRows, dataArrayColumns, meanValueArray, varianceArray).
CallMultiDimensional ==
    /\ callResult = NoCall
    /\ callArgs.routine = "calculateMeanAndVarianceOfMultiDimensionalSamples"
    /\ callResult' = calculateMeanAndVarianceOfMultiDimensionalSamples(
                         callArgs.type, callArgs.dataArray, callArgs.dataArrayRows,
                         callArgs.dataArrayColumns, callArgs.meanValueArray,
                         callArgs.varianceArray)
    /\ UNCHANGED <<callArgs, readVars>>

MeanVarianceNext ==
    \/ CallMeanAndVariance
    \/ CallMultiDimensional

SpecMeanVariance == MeanVarianceInit /\ [][MeanVarianceNext]_vars

\* -------------------------------------- the quantile routines on their own

QuantileSamples ==
    {FloatValue(-1, 0), FloatValue(0, 0), FloatValue(1, -1), FloatValue(2, 0), FloatValue(3, 0)}

\* The quantile fractions: 0, 1, the quarters, the thirds and the fifths,
\* rounded to the type, and the greatest value of the type below 1.
QuantileFractions(type) ==
    { RoundToNearestEven(MantissaBits(type), f[1], f[2], 0) :
        f \in { g \in (0..5) \X {3, 4, 5} : g[1] <= g[2] } }
      \cup { FloatValue(2 ^ MantissaBits(type) - 1, -MantissaBits(type)) }

\* The arguments of a call of the quantile routine, and the fraction and the
\* result of the call made before it on the same array (NoCall if none).
QuantileCall(type, dataArray, quantilePercentage, dataArraySize, previous) ==
    [routine |-> "calculatePercentageQuantileOfSamples", type |-> type,
     dataArray |-> dataArray, quantilePercentage |-> quantilePercentage,
     dataArraySize |-> dataArraySize, previous |-> previous]

QuantileInit ==
    /\ NoRead
    /\ callResult = NoCall
    /\ \E type \in FloatTypes :
          \E n \in 1..MaxSamples :
             \E dataArray \in [0..(n - 1) -> QuantileSamples] :
                \E quantilePercentage \in QuantileFractions(type) :
                   callArgs = QuantileCall(type, dataArray, quantilePercentage, n, NoCall)

\* What the call returns after the work of calculatePercentageQuantileOfSamples:
\* the element read at the index and the copy freed.  An index outside the
\* copy reads memory that is not the copy's: any value, or the process is
\* stopped.
QuantileResults(work) ==
    IF work.withinCopy
    THEN { [quantile |-> work.dataArrayCopy[work.index], crashed |-> FALSE,
            index |-> work.index, withinCopy |-> TRUE,
            dataArray |-> work.dataArray, copyFreed |-> TRUE] }
    ELSE { [quantile |-> value, crashed |-> FALSE,
            index |-> work.index, withinCopy |-> FALSE,
            dataArray |-> work.dataArray, copyFreed |-> TRUE] :
              value \in QuantileSamples }
         \cup { [quantile |-> FloatValue(0, 0), crashed |-> TRUE,
                 index |-> work.index, withinCopy |-> FALSE,
                 dataArray |-> work.dataArray, copyFreed |-> FALSE] }

\* The call calculatePercentageQuantileOf{Float,Double}Samples(dataArray,
\* quantilePercentage, dataArraySize).
CallQuantile ==
    /\ callResult = NoCall
    /\ callResult' \in QuantileResults(
            calculatePercentageQuantileOfSamples(
                callArgs.type, callArgs.dataArray, callArgs.quantilePercentage,
                callArgs.dataArraySize))
    /\ UNCHANGED <<callArgs, readVars>>

\* The routine is called once more on the array as the first call left it,
\* with a fraction not smaller than the first.
CallQuantileAgain ==
    /\ callResult # NoCall
    /\ callArgs.previous = NoCall
    /\ ~callResult.crashed
    /\ \E quantilePercentage \in QuantileFractions(callArgs.type) :
          /\ FloatSub(MantissaBits(callArgs.type), quantilePercentage,
                      callArgs.quantilePercentage).m >= 0
          /\ callArgs' = QuantileCall(callArgs.type, callResult.dataArray,
                              quantilePercentage, callArgs.dataArraySize,
                              [quantilePercentage |-> callArgs.quantilePercentage,
                               result |-> callResult])
          /\ callResult' \in QuantileResults(
                  calculatePercentageQuantileOfSamples(
                      callArgs.type, callResult.dataArray, quantilePercentage,
                      callArgs.dataArraySize))
    /\ UNCHANGED readVars

QuantileNext ==
    \/ CallQuantile
    \/ CallQuantileAgain

SpecQuantile == QuantileInit /\ [][QuantileNext]_vars

\* ------------------------------------------- the JSON output on its own

MaxOutputVariables == 3

MaxMonteCarloIterations == 2

\* The values an output variable or a Monte Carlo sample may hold.
OutputValues == {10, 20}

\* The description of the output at an index: one distinct text per index,
\* each shorter than kCommonConstantMaxCharsPerJSONVariableDescription, so
\* that snprintf copies it whole.
OutputVariableDescription(ii) == <<"description", ii>>

\* A JSONVariable as checkedCalloc leaves it.
ZeroedJSONVariable ==
    [variableSymbol |-> <<>>, variableDescription |-> <<>>,
     values |-> [array |-> "null", offset |-> 0],
     type |-> "kJSONVariableTypeUnknown", size |-> 0]

\* populateJSONVariableStruct: the symbol is "outputVariables[<outputSelect>]",
\* held here as the pair of the name and the index.
populateJSONVariableStruct(outputVariableValues, outputVariableDescription, outputSelect, numberOfOutputVariableValues) ==
    [variableSymbol |-> <<"outputVariables", outputSelect>>,
     variableDescription |-> outputVariableDescription,
     values |-> outputVariableValues,
     type |-> "kJSONVariableTypeDouble",
     size |-> numberOfOutputVariableValues]

\* printJSONVariables: the plots printed, in order, for count entries of
\* jsonVariables from the entry at first; memory holds the arrays the value
\* pointers point into.  (The "stdValues" of a plot come from the Ux library
\* and are left out.)
printJSONVariables(jsonVariables, first, count, memory) ==
    [kk \in 1..count |->
        LET jsonVariable == jsonVariables[first + kk - 1]
        IN  [variableSymbol |-> jsonVariable.variableSymbol,
             variableDescription |-> jsonVariable.variableDescription,
             values |-> [jj \in 1..jsonVariable.size |->
                            memory[jsonVariable.values.array]
                                  [jsonVariable.values.offset + jj - 1]]]]

\* printJSONFormattedOutput up to its call of printJSONVariables: the bounds
\* of the loop, the indices at which jsonVariables, outputVariables and
\* outputVariableDescriptions are accessed, whether all of them lie within
\* the arrays, and, if so, what is printed.
printJSONFormattedOutput(commandLineArguments, monteCarloOutputSamples, outputVariables, outputVariableDescriptions, numberOfOutputVariables) ==
    LET all == commandLineArguments.outputSelect = numberOfOutputVariables
        outputSelectLowerBound ==
            IF all THEN 0 ELSE commandLineArguments.outputSelect
        outputSelectUpperBound ==
            IF all THEN numberOfOutputVariables ELSE outputSelectLowerBound + 1
        indices == outputSelectLowerBound..(outputSelectUpperBound - 1)
        pointerToOutputVariable(outputSelect) ==
            IF commandLineArguments.isMonteCarloMode
            THEN [array |-> "monteCarloOutputSamples", offset |-> 0]
            ELSE [array |-> "outputVariables", offset |-> outputSelect]
        jsonVariables ==
            [outputSelect \in 0..(numberOfOutputVariables - 1) |->
                IF outputSelect \in indices
                THEN populateJSONVariableStruct(
                         pointerToOutputVariable(outputSelect),
                         outputVariableDescriptions[outputSelect],
                         outputSelect,
                         commandLineArguments.numberOfMonteCarloIterations)
                ELSE ZeroedJSONVariable]
        withinArrays == outputSelectUpperBound <= numberOfOutputVariables
    IN  [outputSelectLowerBound |-> outputSelectLowerBound,
         outputSelectUpperBound |-> outputSelectUpperBound,
         indices |-> indices,
         withinArrays |-> withinArrays,
         printed |-> IF withinArrays
                     THEN printJSONVariables(
                              jsonVariables, outputSelectLowerBound,
                              outputSelectUpperBound - outputSelectLowerBound,
                              [monteCarloOutputSamples |-> monteCarloOutputSamples,
                               outputVariables |-> outputVariables])
                     ELSE <<>>]

\* The arguments of a call of printJSONFormattedOutput.
PrintJSONCall(commandLineArguments, monteCarloOutputSamples, outputVariables, numberOfOutputVariables) ==
    [routine |-> "printJSONFormattedOutput",
     arguments |-> commandLineArguments,
     monteCarloOutputSamples |-> monteCarloOutputSamples,
     outputVariables |-> outputVariables,
     outputVariableDescriptions |->
         [ii \in 0..(numberOfOutputVariables - 1) |-> OutputVariableDescription(ii)],
     numberOfOutputVariables |-> numberOfOutputVariables]

\* The command-line arguments as parseArgs leaves them: outputSelect is any
\* integer that is not negative; without -M the mode is not Monte Carlo and
\* the number of iterations is 1, with -M it is the positive number given.
CommandLineArguments(outputSelect, multipleExecutions) ==
    [outputSelect |-> outputSelect,
     isMonteCarloMode |-> multipleExecutions > 0,
     numberOfMonteCarloIterations |->
         IF multipleExecutions > 0 THEN multipleExecutions ELSE 1]

PrintJSONInit ==
    /\ NoRead
    /\ callResult = NoCall
    /\ \E numberOfOutputVariables \in 1..MaxOutputVariables :
          \E outputSelect \in 0..(MaxOutputVariables + 1) :
             \E multipleExecutions \in 0..MaxMonteCarloIterations :
                \E outputVariables \in
                        [0..(numberOfOutputVariables - 1) -> OutputValues] :
                   \E monteCarloOutputSamples \in
                           [0..(multipleExecutions - 1) -> OutputValues] :
                      callArgs = PrintJSONCall(
                                     CommandLineArguments(outputSelect,
                                                          multipleExecutions),
                                     monteCarloOutputSamples, outputVariables,
                                     numberOfOutputVariables)

\* What the call prints after the work of printJSONFormattedOutput.  With an
\* index outside the arrays the routine writes a JSONVariable past the end of
\* the block it allocated and reads a description pointer and a value past
\* the ends of the caller's arrays: the process is stopped before it prints,
\* or it prints one plot with the index as its symbol and whatever those
\* reads gave.
PrintJSONResults(work, call) ==
    IF work.withinArrays
    THEN { [printed |-> work.printed, crashed |-> FALSE,
            indices |-> work.indices, withinArrays |-> TRUE] }
    ELSE { [printed |-> <<>>, crashed |-> TRUE,
            indices |-> work.indices, withinArrays |-> FALSE] }
         \cup
         { [printed |->
               << [variableSymbol |->
                       <<"outputVariables", work.outputSelectLowerBound>>,
                   variableDescription |-> description,
                   values |-> [jj \in 1..call.arguments.numberOfMonteCarloIterations |->
                                  IF call.arguments.isMonteCarloMode
                                  THEN call.monteCarloOutputSamples[jj - 1]
                                  ELSE value]] >>,
             crashed |-> FALSE,
             indices |-> work.indices, withinArrays |-> FALSE] :
               description \in {<<"(null)">>, OutputVariableDescription(0)},
               value \in OutputValues \cup {0} }

\* The call printJSONFormattedOutput(arguments, monteCarloOutputSamples,
\* outputVariables, outputVariableDescriptions, numberOfOutputVariables,
\* description).
CallPrintJSONFormattedOutput ==
    /\ callResult = NoCall
    /\ callArgs.routine = "printJSONFormattedOutput"
    /\ callResult' \in PrintJSONResults(
            printJSONFormattedOutput(
                callArgs.arguments, callArgs.monteCarloOutputSamples,
                callArgs.outputVariables, callArgs.outputVariableDescriptions,
                callArgs.numberOfOutputVariables),
            callArgs)
    /\ UNCHANGED <<callArgs, readVars>>

PrintJSONNext == CallPrintJSONFormattedOutput

SpecPrintJSON == PrintJSONInit /\ [][PrintJSONNext]_vars

\* ------------------------------------------------ parseArgs on its own

MaxArguments == 3

kCommonConstantMaxCharsPerFilepath == 1024

\* setDefaultCommandLineArgumentValues
setDefaultCommandLineArgumentValues ==
    [outputFilePath |-> <<>>, inputFilePath |-> <<>>,
     isWriteToFileEnabled |-> FALSE, isTimingEnabled |-> FALSE,
     numberOfMonteCarloIterations |-> 1, outputSelect |-> 0,
     isOutputSelected |-> FALSE, isVerbose |-> FALSE,
     isInputFromFileEnabled |-> FALSE, isOutputJSONMode |-> FALSE,
     isHelpEnabled |-> FALSE, isBenchmarkingMode |-> FALSE,
     isMonteCarloMode |-> FALSE, isSingleShotExecution |-> TRUE]

\* Contents of *arguments before the call other than the defaults.
LeftoverCommandLineArguments ==
    [outputFilePath |-> <<"x">>, inputFilePath |-> <<"x">>,
     isWriteToFileEnabled |-> TRUE, isTimingEnabled |-> TRUE,
     numberOfMonteCarloIterations |-> 0, outputSelect |-> 5,
     isOutputSelected |-> TRUE, isVerbose |-> TRUE,
     isInputFromFileEnabled |-> TRUE, isOutputJSONMode |-> TRUE,
     isHelpEnabled |-> TRUE, isBenchmarkingMode |-> TRUE,
     isMonteCarloMode |-> TRUE, isSingleShotExecution |-> TRUE]

\* The table commonOptions of parseArgs, in its order: the two names of each
\* option, whether it takes an argument, and the variable its argument or
\* its presence is stored in.
commonOptions ==
    <<
       [opt |-> <<"i", "n", "p", "u", "t">>,
        optAlternative |-> <<"i">>, hasArg |-> TRUE,
        foundArg |-> "inputArg", foundOpt |-> "none"],
       [opt |-> <<"o", "u", "t", "p", "u", "t">>,
        optAlternative |-> <<"o">>, hasArg |-> TRUE,
        foundArg |-> "outputArg", foundOpt |-> "none"],
       [opt |-> <<"s", "e", "l", "e", "c", "t", "-", "o", "u", "t", "p", "u", "t">>,
        optAlternative |-> <<"S">>, hasArg |-> TRUE,
        foundArg |-> "outputSelectArg", foundOpt |-> "none"],
       [opt |-> <<"t", "i", "m", "e">>,
        optAlternative |-> <<"T">>, hasArg |-> FALSE,
        foundArg |-> "none", foundOpt |-> "isTimingEnabled"],
       [opt |-> <<"m", "u", "l", "t", "i", "p", "l", "e", "-", "e", "x", "e", "c", "u", "t", "i", "o", "n", "s">>,
        optAlternative |-> <<"M">>, hasArg |-> TRUE,
        foundArg |-> "multipleExecutionsArg", foundOpt |-> "none"],
       [opt |-> <<"v", "e", "r", "b", "o", "s", "e">>,
        optAlternative |-> <<"v">>, hasArg |-> FALSE,
        foundArg |-> "none", foundOpt |-> "isVerbose"],
       [opt |-> <<"j", "s", "o", "n">>,
        optAlternative |-> <<"j">>, hasArg |-> FALSE,
        foundArg |-> "none", foundOpt |-> "isOutputJSONMode"],
       [opt |-> <<"h", "e", "l", "p">>,
        optAlternative |-> <<"h">>, hasArg |-> FALSE,
        foundArg |-> "none", foundOpt |-> "isHelpEnabled"],
       [opt |-> <<"b", "e", "n", "c", "h", "m", "a", "r", "k", "i", "n", "g">>,
        optAlternative |-> <<"b">>, hasArg |-> FALSE,
        foundArg |-> "none", foundOpt |-> "isBenchmarkingMode"]
    >>

\* The elements of the command lines of the model (argv[1] onwards).
ArgvElements ==
    { <<"-", "j">>,
      <<"-", "-", "j", "s", "o", "n">>,
      <<"-", "b">>,
      <<"-", "-", "b", "e">>,
      <<"-", "T">>,
      <<"-", "M">>,
      <<"-", "M", "=", "2">>,
      <<"-", "S">>,
      <<"-", "i">>,
      <<"3">>,
      <<"0">>,
      <<"x">>,
      <<"-", "1">>,
      <<"-", "-">>,
      <<"-", "q">> }

\* s is a prefix of t.
IsPrefix(s, t) == Len(s) <= Len(t) /\ SubSeq(t, 1, Len(s)) = s

\* The position of the first "=" of s, 0 if it has none.
RECURSIVE EqualsPosition(_)
EqualsPosition(s) ==
    IF s = <<>> THEN 0
    ELSE IF Head(s) = "=" THEN 1
    ELSE LET rest == EqualsPosition(Tail(s))
         IN  IF rest = 0 THEN 0 ELSE rest + 1

\* The options of the table that getopt_long_only finds for a name: the one
\* with that very name, or else those of which the name is an abbreviation.
MatchingOptions(options, name) ==
    LET exact == { k \in DOMAIN options :
                     name = options[k].opt \/ name = options[k].optAlternative }
        abbreviated == { k \in DOMAIN options :
                           \/ IsPrefix(name, options[k].opt)
                           \/ IsPrefix(name, options[k].optAlternative) }
    IN  IF exact # {} THEN exact ELSE abbreviated

\* One call of getopt_long_only(argc, argv, ":", longOptions, &longIndex)
\* with optind at an element of argv (counted from 1, the program name left
\* out): an element that does not begin with '-', or is "-" alone, is not an
\* option and is passed over (it is moved behind the options); "--" ends the
\* options; any other element is a long option with one or two dashes, its
\* argument after "=" or in the next element.
getopt_long_only(argv, optind, options) ==
    LET element == argv[optind]
        isOption == Len(element) >= 2 /\ Head(element) = "-"
        dashes == IF Len(element) >= 2 /\ element[2] = "-" THEN 2 ELSE 1
        text == SubSeq(element, dashes + 1, Len(element))
        equals == EqualsPosition(text)
        name == IF equals = 0 THEN text ELSE SubSeq(text, 1, equals - 1)
        value == SubSeq(text, equals + 1, Len(text))
        matching == MatchingOptions(options, name)
        opt == CHOOSE k \in matching : TRUE
    IN  IF ~isOption
        THEN [kind |-> "nonOption", opt |-> 0, optarg |-> <<>>, optind |-> optind + 1]
        ELSE IF element = <<"-", "-">>
        THEN [kind |-> "endOfOptions", opt |-> 0, optarg |-> <<>>, optind |-> optind + 1]
        ELSE IF Cardinality(matching) # 1
        THEN [kind |-> "?", opt |-> 0, optarg |-> <<>>, optind |-> optind + 1]
        ELSE IF ~options[opt].hasArg
        THEN IF equals # 0
             THEN [kind |-> "?", opt |-> 0, optarg |-> <<>>, optind |-> optind + 1]
             ELSE [kind |-> "option", opt |-> opt, optarg |-> <<>>, optind |-> optind + 1]
        ELSE IF equals # 0
        THEN [kind |-> "option", opt |-> opt, optarg |-> value, optind |-> optind + 1]
        ELSE IF optind + 1 <= Len(argv)
        THEN [kind |-> "option", opt |-> opt, optarg |-> argv[optind + 1],
              optind |-> optind + 2]
        ELSE [kind |-> ":", opt |-> 0, optarg |-> <<>>, optind |-> optind + 1]

\* The pointers inputArg, outputArg, outputSelectArg and multipleExecutionsArg
\* of parseArgs: <<>> is NULL, <<s>> points to the argument s.
NoFoundArguments ==
    [inputArg |-> <<>>, outputArg |-> <<>>,
     outputSelectArg |-> <<>>, multipleExecutionsArg |-> <<>>]

\* The body of the getopt loop for a found option: *foundOpt = true and, for
\* an option with an argument, *foundArg = optarg.
StoreOption(scan, option, optarg) ==
    [scan EXCEPT
        !.arguments = IF option.foundOpt = "none" THEN @
                      ELSE [@ EXCEPT ![option.foundOpt] = TRUE],
        !.foundArg = IF option.hasArg /\ option.foundArg # "none"
                     THEN [@ EXCEPT ![option.foundArg] = <<optarg>>]
                     ELSE @]

\* Mutant: the test of JSON mode against benchmarking mode left out.
JSONWithBenchmarkingAllowed(commandLineArguments) == FALSE

\* `(arguments->isOutputJSONMode) && (arguments->isBenchmarkingMode)`
JSONWithBenchmarking(commandLineArguments) ==
    commandLineArguments.isOutputJSONMode /\ commandLineArguments.isBenchmarkingMode

\* Mutant: -M leaves the single-shot flag as it is.
StoreMultipleExecutionsKeepingSingleShot(commandLineArguments, multipleExecutions) ==
    [commandLineArguments EXCEPT
        !.numberOfMonteCarloIterations = multipleExecutions,
        !.isMonteCarloMode = TRUE,
        !.isTimingEnabled = TRUE]

\* The assignments of parseArgs for an accepted -M argument.
StoreMultipleExecutions(commandLineArguments, multipleExecutions) ==
    [commandLineArguments EXCEPT
        !.numberOfMonteCarloIterations = multipleExecutions,
        !.isMonteCarloMode = TRUE,
        !.isTimingEnabled = TRUE,
        !.isSingleShotExecution = FALSE]

ParseArgsReturn(commandLineArguments, code, diag) ==
    [arguments |-> commandLineArguments, returnCode |-> code, diagnostic |-> diag]

\* parseArgs after concatAndParseArgs has returned success: the paths, the
\* selected output, the number of executions and the test of JSON mode
\* against benchmarking mode, each with its early return.
parseArgsAfterOptions(commandLineArguments, foundArg) ==
    LET tooLong(arg) == arg # <<>> /\ Len(arg[1]) >= kCommonConstantMaxCharsPerFilepath
        a1 == IF foundArg.inputArg = <<>> THEN commandLineArguments
              ELSE [commandLineArguments EXCEPT
                       !.inputFilePath = foundArg.inputArg[1],
                       !.isInputFromFileEnabled = TRUE]
        a2 == IF foundArg.outputArg = <<>> THEN a1
              ELSE [a1 EXCEPT !.outputFilePath = foundArg.outputArg[1],
                              !.isWriteToFileEnabled = TRUE]
        outputSelect == parseIntChecked(foundArg.outputSelectArg[1])
        a3 == IF foundArg.outputSelectArg = <<>> THEN a2
              ELSE [a2 EXCEPT !.outputSelect = outputSelect.out,
                              !.isOutputSelected = TRUE]
        multipleExecutions == parseIntChecked(foundArg.multipleExecutionsArg[1])
        a4 == IF foundArg.multipleExecutionsArg = <<>> THEN a3
              ELSE StoreMultipleExecutions(a3, multipleExecutions.out)
    IN  IF tooLong(foundArg.inputArg)
        THEN ParseArgsReturn([commandLineArguments EXCEPT
                                 !.inputFilePath =
                                     SubSeq(foundArg.inputArg[1], 1,
                                            kCommonConstantMaxCharsPerFilepath - 1)],
                             kCommonConstantReturnTypeError, "inputFilePath")
        ELSE IF tooLong(foundArg.outputArg)
        THEN ParseArgsReturn([a1 EXCEPT
                                 !.outputFilePath =
                                     SubSeq(foundArg.outputArg[1], 1,
                                            kCommonConstantMaxCharsPerFilepath - 1)],
                             kCommonConstantReturnTypeError, "outputFilePath")
        ELSE IF /\ foundArg.outputSelectArg # <<>>
                /\ outputSelect.returnCode # kCommonConstantReturnTypeSuccess
        THEN ParseArgsReturn(a2, kCommonConstantReturnTypeError, "outputSelectNotInteger")
        ELSE IF foundArg.outputSelectArg # <<>> /\ outputSelect.out < 0
        THEN ParseArgsReturn(a2, kCommonConstantReturnTypeError, "outputSelectNegative")
        ELSE IF /\ foundArg.multipleExecutionsArg # <<>>
                /\ multipleExecutions.returnCode # kCommonConstantReturnTypeSuccess
        THEN ParseArgsReturn(a3, kCommonConstantReturnTypeError,
                             "multipleExecutionsNotInteger")
        ELSE IF foundArg.multipleExecutionsArg # <<>> /\ multipleExecutions.out <= 0
        THEN ParseArgsReturn(a3, kCommonConstantReturnTypeError,
                             "multipleExecutionsNotPositive")
        ELSE IF JSONWithBenchmarking(a4)
        THEN ParseArgsReturn(a4, kCommonConstantReturnTypeError, "jsonWithBenchmarking")
        ELSE ParseArgsReturn(a4, kCommonConstantReturnTypeSuccess, "none")

\* The arguments of a call of parseArgs: the command line and what *arguments
\* holds before the call.  (No demo-specific options.)
ParseArgsCall(argv, commandLineArguments) ==
    [routine |-> "parseArgs", argv |-> argv, arguments |-> commandLineArguments]

\* The call while it runs and after it: its stage; *arguments; the found
\* arguments; optind; whether an element that is not an option was passed
\* over; the options found so far (by their index in the table); and the
\* return code and the message once it has returned.
ParseArgsState(stage, commandLineArguments, foundArg, optind, unexpected, found, code, diag) ==
    [stage |-> stage, arguments |-> commandLineArguments, foundArg |-> foundArg,
     optind |-> optind, unexpected |-> unexpected, found |-> found,
     returnCode |-> code, diagnostic |-> diag]

ParseArgsInit ==
    /\ NoRead
    /\ callResult = NoCall
    /\ \E n \in 0..MaxArguments :
          \E argv \in [1..n -> ArgvElements] :
             \E commandLineArguments \in {setDefaultCommandLineArgumentValues,
                                          LeftoverCommandLineArguments} :
                callArgs = ParseArgsCall(argv, commandLineArguments)

\* parseArgs up to the getopt loop: the defaults are assigned and every
\* found flag and found argument is cleared.
ParseArgsSetDefaults ==
    /\ callArgs.routine = "parseArgs"
    /\ callResult = NoCall
    /\ callResult' = ParseArgsState("getopt", setDefaultCommandLineArgumentValues,
                                    NoFoundArguments, 1, FALSE, {},
                                    kCommonConstantReturnTypeError, "none")
    /\ UNCHANGED <<callArgs, readVars>>

\* One iteration of the getopt loop of parseArgsCoreImplementation.
ParseArgsGetopt ==
    /\ callArgs.routine = "parseArgs"
    /\ callResult # NoCall
    /\ callResult.stage = "getopt"
    /\ callResult.optind <= Len(callArgs.argv)
    /\ LET got == getopt_long_only(callArgs.argv, callResult.optind, commonOptions)
       IN  callResult' =
             CASE got.kind = "nonOption" ->
                    [callResult EXCEPT !.optind = got.optind, !.unexpected = TRUE]
               [] got.kind = "endOfOptions" ->
                    [callResult EXCEPT
                        !.optind = Len(callArgs.argv) + 1,
                        !.unexpected = @ \/ got.optind <= Len(callArgs.argv)]
               [] got.kind = "?" ->
                    [callResult EXCEPT !.stage = "returned",
                                       !.diagnostic = "invalidOption"]
               [] got.kind = ":" ->
                    [callResult EXCEPT !.stage = "returned",
                                       !.diagnostic = "missingArgument"]
               [] got.kind = "option" ->
                    [StoreOption(callResult, commonOptions[got.opt], got.optarg)
                        EXCEPT !.optind = got.optind,
                               !.found = @ \cup {got.opt}]
    /\ UNCHANGED <<callArgs, readVars>>

\* getopt_long_only returns -1: the loop ends, an element that is not an
\* option is an error, and parseArgs goes on to its return.
ParseArgsFinish ==
    /\ callArgs.routine = "parseArgs"
    /\ callResult # NoCall
    /\ callResult.stage = "getopt"
    /\ callResult.optind > Len(callArgs.argv)
    /\ callResult' =
          IF callResult.unexpected
          THEN [callResult EXCEPT !.stage = "returned",
                                  !.diagnostic = "unexpectedArgument"]
          ELSE LET after == parseArgsAfterOptions(callResult.arguments,
                                                  callResult.foundArg)
               IN  [callResult EXCEPT !.stage = "returned",
                                      !.arguments = after.arguments,
                                      !.returnCode = after.returnCode,
                                      !.diagnostic = after.diagnostic]
    /\ UNCHANGED <<callArgs, readVars>>

ParseArgsNext ==
    \/ ParseArgsSetDefaults
    \/ ParseArgsGetopt
    \/ ParseArgsFinish

SpecParseArgs == ParseArgsInit /\ [][ParseArgsNext]_vars

\* =========================================================== the claims

\* ---- what the claims say of a file, stated without the code's operators

\* The fields of a line: the text between its commas, empty fields included.
RECURSIVE SplitOnComma(_)
SplitOnComma(s) ==
    LET n == SpanToDelimiter(s)
    IN  IF n = Len(s) THEN <<s>>
        ELSE <<SubSeq(s, 1, n)>> \o SplitOnComma(Drop(s, n + 2))

\* The number of tokens of a line: the starts of its maximal comma-free runs.
TokenCount(line) ==
    Cardinality({ i \in 1..Len(line) :
                    line[i] # "," /\ (i = 1 \/ line[i - 1] = ",") })

\* Whitespace, an optional sign, then a digit.
IsNumberField(f) ==
    \E i \in 1..Len(f) :
        /\ f[i] \in Digits
        /\ \E j \in 0..(i - 1) :
              /\ \A k \in 1..j : safeIsspace(f[k])
              /\ \/ j = i - 1
                 \/ j = i - 2 /\ f[i - 1] \in {"+", "-"}

\* Whitespace, '-', then whitespace only.
IsIgnoreField(f) ==
    \E i \in 1..Len(f) :
        /\ f[i] = "-"
        /\ \A k \in 1..Len(f) : k # i => safeIsspace(f[k])

\* Whitespace, the header name, whitespace.
IsHeaderField(f, name) ==
    \E a \in 0..Len(f) :
        /\ a + Len(name) <= Len(f)
        /\ SubSeq(f, a + 1, a + Len(name)) = name
        /\ \A k \in (1..a) \cup ((a + Len(name) + 1)..Len(f)) : safeIsspace(f[k])

WellFormedHeaderLine(line) ==
    LET fields == SplitOnComma(line)
    IN  /\ Len(fields) = numberOfDistributions
        /\ \A i \in 1..Len(fields) : IsHeaderField(fields[i], expectedHeaders[i])

WellFormedDataLine(line) ==
    LET fields == SplitOnComma(line)
    IN  /\ Len(fields) = numberOfDistributions
        /\ \A i \in 1..Len(fields) : IsNumberField(fields[i]) \/ IsIgnoreField(fields[i])

\* The data rows that fgets has returned.
DataRowsRead == IF linesRead = <<>> THEN <<>> ELSE Tail(linesRead)

\* The file read is well formed: a matching header, then at most capacity
\* rows of numberOfDistributions number (or ignore-pattern) fields each.
WellFormedFile ==
    /\ numberOfDistributions >= 1
    /\ FileExists(inputFilePath)
    /\ linesRead # <<>>
    /\ WellFormedHeaderLine(linesRead[1])
    /\ \A k \in 1..Len(DataRowsRead) : WellFormedDataLine(DataRowsRead[k])
    /\ Len(DataRowsRead) <= kCommonConstantMaxNumberOfInputSamples

\* C1: the read of a well-formed CSV file (N >= 1 columns, a matching header,
\* 0 <= M <= capacity rows of N parseable tokens) returns success and has
\* assigned exactly the entries 0..N-1 of inputDistributions, each once.
C1_WellFormedFileSucceeds ==
    (pc = "done" /\ WellFormedFile) =>
        /\ returnCode = kCommonConstantReturnTypeSuccess
        /\ DOMAIN outputWrites = 0..(numberOfDistributions - 1)
        /\ \A ii \in DOMAIN outputWrites :
              outputWrites[ii] = 1 /\ inputDistributions[ii] # CallerValue

C1_Witness ==
    /\ pc = "done"
    /\ WellFormedFile
    /\ numberOfDistributions = 2
    /\ Len(DataRowsRead) = kCommonConstantMaxNumberOfInputSamples
    /\ \E k \in 1..Len(DataRowsRead) : IsIgnoreField(SplitOnComma(DataRowsRead[k])[2])
    /\ returnCode = kCommonConstantReturnTypeSuccess

\* C2: if a data row of the file that is read has a number of tokens other
\* than numberOfDistributions, the read returns the error result, whatever
\* rows precede it.
C2_WrongTokenCountFails ==
    (pc = "done" /\ \E k \in 1..Len(DataRowsRead) :
                        TokenCount(DataRowsRead[k]) # numberOfDistributions)
        => returnCode = kCommonConstantReturnTypeError

C2_Witness ==
    /\ pc = "done"
    /\ Len(DataRowsRead) = 2
    /\ TokenCount(DataRowsRead[1]) = numberOfDistributions
    /\ TokenCount(DataRowsRead[2]) < numberOfDistributions
    /\ diagnostic = "lessEntries"
    /\ returnCode = kCommonConstantReturnTypeError

\* C3: when the read returns the error result, no entry of the caller's
\* inputDistributions has been assigned.
C3_ErrorLeavesOutputUnchanged ==
    (pc = "done" /\ returnCode = kCommonConstantReturnTypeError) =>
        \A ii \in DOMAIN inputDistributions :
            inputDistributions[ii] = CallerValue /\ outputWrites[ii] = 0

C3_Witness ==
    /\ pc = "done"
    /\ returnCode = kCommonConstantReturnTypeError
    /\ diagnostic = "notANumber"
    /\ rowCount = 1
    /\ numberOfDistributions = 2
    /\ \A ii \in DOMAIN inputDistributions : inputDistributions[ii] = CallerValue

\* C4: a file with more data rows than the capacity makes the read return
\* the error result; the capacity error is raised on the first excess row
\* (row index = capacity) before any token of it is parsed or stored; and a
\* file with at most capacity data rows is never rejected for capacity.
C4_CapacityError ==
    /\ Len(DataRowsRead) > kCommonConstantMaxNumberOfInputSamples =>
          /\ returnCode = kCommonConstantReturnTypeError
          /\ pc \in {"cleanup", "done"}
          /\ Len(DataRowsRead) = kCommonConstantMaxNumberOfInputSamples + 1
    /\ diagnostic = "tooManyRows" <=>
          /\ Len(DataRowsRead) = kCommonConstantMaxNumberOfInputSamples + 1
          /\ rowCount = kCommonConstantMaxNumberOfInputSamples
    /\ \A call \in parserCalls : call[1] < kCommonConstantMaxNumberOfInputSamples
    /\ \A write \in sampleWrites :
          /\ write[1] < kCommonConstantMaxNumberOfInputSamples
          /\ write[3] < kCommonConstantMaxNumberOfInputSamples

C4_Witness ==
    /\ pc = "done"
    /\ diagnostic = "tooManyRows"
    /\ Len(DataRowsRead) = kCommonConstantMaxNumberOfInputSamples + 1
    /\ Cardinality(parserCalls) =
          kCommonConstantMaxNumberOfInputSamples * numberOfDistributions

\* The header row that was read fails validation.
HeaderFailed ==
    /\ linesRead # <<>>
    /\ validateInputDistributionCSVHeader(
           linesRead[1], expectedHeaders, numberOfDistributions).returnCode
         = kCommonConstantReturnTypeError

\* C6: when the header row fails validation the read returns the error
\* result at once: no further line is read, nothing is classified, parsed
\* or stored, and the row cursor stays -1.
C6_HeaderFailureStopsRead ==
    HeaderFailed =>
        /\ Len(linesRead) = 1
        /\ rowCount = -1
        /\ pc \in {"cleanup", "done"}
        /\ returnCode = kCommonConstantReturnTypeError
        /\ parserCalls = {}
        /\ sampleWrites = {}
        /\ \A c \in Columns : ~uxColumns[c] /\ sampleCounts[c] = 0

C6_Witness ==
    /\ pc = "done"
    /\ HeaderFailed
    /\ numberOfDistributions = 2
    /\ diagnostic = "moreHeaderValues"
    /\ rowCount = -1

\* C7 as claimed: with the path "stdin" the read returns the error result
\* and reads nothing, for every numberOfDistributions.
C7_StdinAlwaysError ==
    (pc = "done" /\ inputFilePath = "stdin") =>
        returnCode = kCommonConstantReturnTypeError /\ linesRead = <<>>

\* C7 as amended: with the path "stdin" the read reads nothing and opens no
\* file; it returns the error result, with the pipeline message, when
\* numberOfDistributions >= 1, and success when numberOfDistributions is 0.
C7_StdinErrorUnlessEmpty ==
    (pc = "done" /\ inputFilePath = "stdin") =>
        /\ linesRead = <<>>
        /\ fp = "null"
        /\ IF numberOfDistributions = 0
           THEN returnCode = kCommonConstantReturnTypeSuccess /\ diagnostic = "none"
           ELSE /\ returnCode = kCommonConstantReturnTypeError
                /\ diagnostic = "pipelineNotImplemented"

C7_Witness ==
    /\ pc = "done"
    /\ inputFilePath = "stdin"
    /\ numberOfDistributions = 2
    /\ returnCode = kCommonConstantReturnTypeError
    /\ diagnostic = "pipelineNotImplemented"

\* The tokens of a line: its non-empty fields.
TokensOf(line) == SelectSeq(SplitOnComma(line), LAMBDA f : f # <<>>)

\* The value of a number field.
NumberValue(f) == strtod(f).value

\* The step is one iteration of the loop on a data row below the capacity.
DataRowStep ==
    /\ pc = "loop"
    /\ rowCount >= 0
    /\ rowCount < kCommonConstantMaxNumberOfInputSamples
    /\ Len(linesRead') = Len(linesRead) + 1

\* In a DataRowStep, the loop got to token number c of the new row: no
\* earlier token of the row failed to parse.
TokenReached(c) ==
    \/ diagnostic' # "notANumber"
    \/ \E call \in parserCalls' : call[1] = rowCount /\ call[2] > c

\* The step of C8: in a column not classified as distribution, a token that
\* is '-' followed by whitespace only is never given to the parser (so it cannot
\* fail to parse); zero is stored at the column's fill position and the fill
\* count stays, and a sample accepted in such a column is stored at the fill
\* position, so that it overwrites the zero of an ignored token before it.
C8_IgnoredTokenStep ==
    DataRowStep =>
        LET tokens == TokensOf(linesRead'[Len(linesRead')])
        IN  \A c \in Columns :
               (c < Len(tokens) /\ ~uxColumns[c]) =>
                  IF IsIgnoreField(tokens[c + 1])
                  THEN /\ <<rowCount, c>> \notin parserCalls'
                       /\ TokenReached(c) =>
                             /\ sampleCounts'[c] = sampleCounts[c]
                             /\ inputSampleValues'[c][sampleCounts[c]] = 0
                             /\ <<rowCount, c, sampleCounts[c]>> \in sampleWrites'
                  ELSE sampleCounts'[c] = sampleCounts[c] + 1 =>
                             /\ inputSampleValues'[c][sampleCounts[c]]
                                   = NumberValue(tokens[c + 1])
                             /\ <<rowCount, c, sampleCounts[c]>> \in sampleWrites'

\* C8: every step of the read stores zero, uncounted and unparsed, for an
\* ignored token of a column not classified as distribution, and stores an
\* accepted sample at the column's fill position.
C8_IgnoredTokenStoresZeroUncounted == [][C8_IgnoredTokenStep]_vars

\* Row 0 of some column was ignored and row 1 stored a sample over its zero.
C8_Witness ==
    \E c \in Columns :
        /\ rowCount = 2
        /\ ~uxColumns[c]
        /\ {<<0, c, 0>>, <<1, c, 0>>} \subseteq sampleWrites
        /\ <<0, c>> \notin parserCalls
        /\ <<1, c>> \in parserCalls
        /\ sampleCounts[c] = 1
        /\ inputSampleValues[c][0] # 0

\* The values of the tokens of column c that are not the ignore pattern, in
\* row order.
RECURSIVE ExpectedSamples(_, _)
ExpectedSamples(rows, c) ==
    IF rows = <<>> THEN <<>>
    ELSE LET token == TokensOf(Head(rows))[c + 1]
         IN  (IF IsIgnoreField(token) THEN <<>> ELSE <<NumberValue(token)>>)
                \o ExpectedSamples(Tail(rows), c)

\* C9: after a successful read, the fill count of every column never
\* classified as distribution is the number of data rows whose token in the
\* column is not the ignore pattern, and the buffer holds the values of
\* those tokens in row order.
C9_BufferHoldsSamplesInRowOrder ==
    (pc \in {"cleanup", "done"} /\ returnCode = kCommonConstantReturnTypeSuccess) =>
        \A c \in Columns :
            ~uxColumns[c] =>
                LET expected == ExpectedSamples(DataRowsRead, c)
                IN  /\ sampleCounts[c] = Len(expected)
                    /\ \A k \in 1..Len(expected) :
                          inputSampleValues[c][k - 1] = expected[k]

C9_Witness ==
    /\ pc = "done"
    /\ returnCode = kCommonConstantReturnTypeSuccess
    /\ numberOfDistributions = 2
    /\ rowCount = 2
    /\ ~uxColumns[0] /\ ~uxColumns[1]
    /\ sampleCounts[0] = 1
    /\ sampleCounts[1] = 2
    /\ inputSampleValues[1][0] = 1
    /\ inputSampleValues[1][1] = 2

\* The token of column c in the first data row holds the marker "Ux".
FirstRowHoldsMarker(c) ==
    /\ DataRowsRead # <<>>
    /\ LET tokens == TokensOf(DataRowsRead[1])
       IN  /\ c < Len(tokens)
           /\ \E i \in 1..(Len(tokens[c + 1]) - 1) :
                 SubSeq(tokens[c + 1], i, i + 1) = <<"U", "x">>

\* C10: for a column whose first data-row token holds "Ux", no token of a
\* later row is given to the parser or stored; once row 0 is accepted the
\* column's fill count stays 1 and its buffer holds the value of the row-0
\* token alone.
C10_UxColumnIgnoredAfterFirstRow ==
    \A c \in Columns :
        FirstRowHoldsMarker(c) =>
            /\ \A call \in parserCalls : call[2] = c => call[1] = 0
            /\ \A write \in sampleWrites : write[2] = c => write[1] = 0
            /\ rowCount >= 1 =>
                  /\ uxColumns[c]
                  /\ sampleCounts[c] = 1
                  /\ inputSampleValues[c] =
                        [k \in SampleIndices |->
                            IF k = 0
                            THEN NumberValue(TokensOf(DataRowsRead[1])[c + 1])
                            ELSE 0]

\* A read that succeeds although a later row holds "z" in a marker column.
C10_Witness ==
    /\ pc = "done"
    /\ returnCode = kCommonConstantReturnTypeSuccess
    /\ numberOfDistributions = 2
    /\ rowCount = 2
    /\ FirstRowHoldsMarker(0)
    /\ TokensOf(DataRowsRead[2])[1] = <<"z">>

\* ---- the materializer and the buffers of the read (Spec)

\* The positions of primitiveCalls that are calls for column c.
PrimitiveCallsFor(c) ==
    { k \in 1..Len(primitiveCalls) : primitiveCalls[k][1] = c }

\* C11: after a successful read, the entry of a column whose first data-row
\* token held "Ux" is the value parsed from that token (buffer slot 0) and
\* the primitive was not called for the column; the entry of any other
\* column is the primitive's result for the column's buffer and fill count
\* (0 included), the primitive having been called exactly once for it; the
\* calls are in column order and every entry was assigned once.
C11_MaterializedPerColumn ==
    (pc \in {"cleanup", "done"} /\ returnCode = kCommonConstantReturnTypeSuccess) =>
        /\ \A c \in Columns :
              /\ outputWrites[c] = 1
              /\ IF FirstRowHoldsMarker(c)
                 THEN /\ inputDistributions[c] =
                            SampleValue(NumberValue(TokensOf(DataRowsRead[1])[c + 1]))
                      /\ inputDistributions[c] = SampleValue(inputSampleValues[c][0])
                      /\ PrimitiveCallsFor(c) = {}
                 ELSE /\ inputDistributions[c] =
                            [kind |-> "distribution",
                             fromSamples |-> [k \in 0..(sampleCounts[c] - 1) |->
                                                 inputSampleValues[c][k]],
                             count |-> sampleCounts[c]]
                      /\ Cardinality(PrimitiveCallsFor(c)) = 1
                      /\ \A k \in PrimitiveCallsFor(c) :
                            primitiveCalls[k][2] = sampleCounts[c]
        /\ \A j, k \in 1..Len(primitiveCalls) :
              j < k => primitiveCalls[j][1] < primitiveCalls[k][1]

\* A successful read of two columns: column 0 a marker column, column 1 with
\* every token ignored, so that the primitive is called once, with count 0.
C11_Witness ==
    /\ pc = "done"
    /\ returnCode = kCommonConstantReturnTypeSuccess
    /\ numberOfDistributions = 2
    /\ rowCount >= 1
    /\ FirstRowHoldsMarker(0)
    /\ inputDistributions[0] = SampleValue(2)
    /\ inputDistributions[1] = [kind |-> "distribution", fromSamples |-> <<>>, count |-> 0]
    /\ primitiveCalls = << <<1, 0>> >>

\* C12: when the read has returned, whatever the path, none of the blocks
\* it allocated (line buffer, sample arrays, flags, counters) is left
\* unreleased.
C12_BuffersReleasedOnEveryReturn ==
    pc = "done" => allocated = {}

\* ---- the integer parser (SpecParseInt)

\* The position of the first decimal digit of str.
FirstDigit(str) ==
    CHOOSE i \in 1..Len(str) :
        str[i] \in Digits /\ \A k \in 1..(i - 1) : str[k] \notin Digits

\* The position of the last digit of the run of digits that starts at i.
LastDigit(str, i) ==
    CHOOSE j \in i..Len(str) :
        /\ \A k \in i..j : str[k] \in Digits
        /\ j = Len(str) \/ str[j + 1] \notin Digits

\* The value of the integer prefix of a number field: its first run of
\* digits read in base ten, negated after a '-'.
PrefixValue(str) ==
    LET i == FirstDigit(str)
        j == LastDigit(str, i)
        magnitude[k \in (i - 1)..j] ==
            IF k = i - 1 THEN 0 ELSE 10 * magnitude[k - 1] + DigitValue(str[k])
    IN  IF i > 1 /\ str[i - 1] = "-" THEN 0 - magnitude[j] ELSE magnitude[j]

\* C13: parseIntChecked succeeds exactly on the strings that begin, after
\* optional whitespace and an optional sign, with a decimal digit and whose
\* integer prefix lies in INT_MIN..INT_MAX; on success *out is the value of
\* the prefix, whatever follows it; on failure *out is not written.
C13_ParseIntChecked ==
    callResult # NoCall =>
        LET str == callArgs.str
            ok  == IsNumberField(str) /\ PrefixValue(str) \in INT_MIN..INT_MAX
        IN  /\ callResult.returnCode =
                  (IF ok THEN kCommonConstantReturnTypeSuccess
                   ELSE kCommonConstantReturnTypeError)
            /\ callResult.written = ok
            /\ ok => callResult.out = PrefixValue(str)

\* " -" then INT_MIN's digits then "x": accepted with trailing characters.
C13_Witness ==
    /\ callResult # NoCall
    /\ Len(callArgs.str) = MaxIntStringLength
    /\ callArgs.str[1] = " " /\ callArgs.str[2] = "-"
    /\ callArgs.str[MaxIntStringLength] = "x"
    /\ callResult.returnCode = kCommonConstantReturnTypeSuccess
    /\ callResult.out = INT_MIN

\* ---- mean and variance (SpecMeanVariance)

\* A call of the one-dimensional routine has returned.
MeanVarianceReturned ==
    /\ callResult # NoCall
    /\ callArgs.routine = "calculateMeanAndVarianceOfSamples"

\* The indices of the array of the call.
SampleRange == 0..(callArgs.dataArraySize - 1)

\* The sum of the first k samples and of their squares as the type adds
\* them, one rounding for each operation.
RoundedSum(bits, x, n) ==
    LET partial[k \in 0..n] ==
            IF k = 0 THEN FloatValue(0, 0) ELSE FloatAdd(bits, partial[k - 1], x[k - 1])
    IN  partial[n]

RoundedSumOfSquares(bits, x, n) ==
    LET partial[k \in 0..n] ==
            IF k = 0 THEN FloatValue(0, 0)
            ELSE FloatAdd(bits, partial[k - 1], FloatMul(bits, x[k - 1], x[k - 1]))
    IN  partial[n]

\* Twice a sample, an integer: the samples are multiples of 1/2.
Doubled(x) == IF x.e >= 0 THEN x.m * 2^(x.e + 1) ELSE x.m

\* The exact sums of the doubled samples, of their magnitudes and of their
\* squares.
RECURSIVE SumOver(_, _)
SumOver(f, indices) ==
    IF indices = {} THEN 0
    ELSE LET i == CHOOSE i \in indices : TRUE
         IN  f[i] + SumOver(f, indices \ {i})

ExactSum == SumOver([i \in SampleRange |-> Doubled(callArgs.dataArray[i])], SampleRange)
ExactSumOfMagnitudes ==
    SumOver([i \in SampleRange |-> Magnitude(Doubled(callArgs.dataArray[i]))], SampleRange)
ExactSumOfSquares ==
    SumOver([i \in SampleRange |-> Doubled(callArgs.dataArray[i]) * Doubled(callArgs.dataArray[i])],
            SampleRange)

\* A floating-point value as a fraction <<numerator, denominator>>.
Numerator(x) == IF x.e >= 0 THEN x.m * 2^x.e ELSE x.m
Denominator(x) == IF x.e >= 0 THEN 1 ELSE 2^(0 - x.e)

\* | mean - (sum of samples)/n | <= g(n) * (sum of |samples|)/n, where
\* g(k) = k u / (1 - k u) and u = 2^-bits is the unit roundoff.
MeanWithinTolerance(bits, mean) ==
    LET n == callArgs.dataArraySize
    IN  Magnitude(2 * n * Numerator(mean) - ExactSum * Denominator(mean)) * (2^bits - n)
            <= n * ExactSumOfMagnitudes * Denominator(mean)

\* | variance - ((sum of squares)/n - ((sum)/n)^2) | <= 2 g(2n + 2) * (sum of
\* squares)/n.
VarianceWithinTolerance(bits, variance) ==
    LET n == callArgs.dataArraySize
        k == 2 * n + 2
    IN  Magnitude(4 * n * n * Numerator(variance)
                    - (n * ExactSumOfSquares - ExactSum * ExactSum) * Denominator(variance))
              * (2^bits - k)
            <= 2 * k * n * ExactSumOfSquares * Denominator(variance)

\* C14: the routine returns mean = (sum of samples)/n and variance = (sum of
\* squared samples)/n - mean^2, the population variance: each is that
\* expression evaluated in the routine's floating-point type, and each is
\* within rounding error of the exact value of the expression.
C14_PopulationMeanAndVariance ==
    MeanVarianceReturned =>
        LET bits == MantissaBits(callArgs.type)
            n    == callArgs.dataArraySize
            size == FloatFromSize(bits, n)
            sum  == RoundedSum(bits, callArgs.dataArray, n)
            sumOfSquares == RoundedSumOfSquares(bits, callArgs.dataArray, n)
        IN  /\ callResult.mean = FloatDiv(bits, sum, size)
            /\ callResult.variance =
                  FloatSub(bits, FloatDiv(bits, sumOfSquares, size),
                           FloatMul(bits, callResult.mean, callResult.mean))
            /\ MeanWithinTolerance(bits, callResult.mean)
            /\ VarianceWithinTolerance(bits, callResult.variance)

\* The samples {1, 3, 5}: mean 3 and a variance within 1/16 of 8/3 (the
\* n - 1 variance would be 4).
C14_Witness ==
    /\ MeanVarianceReturned
    /\ callArgs.dataArray =
          (0 :> FloatValue(1, 0) @@ 1 :> FloatValue(3, 0) @@ 2 :> FloatValue(5, 0))
    /\ callResult.mean = FloatValue(3, 0)
    /\ Magnitude(3 * Numerator(callResult.variance) - 8 * Denominator(callResult.variance)) * 16
          <= 3 * Denominator(callResult.variance)

\* The array of the call holds one value, c = dataArray[0], n times.
ConstantSamples ==
    /\ MeanVarianceReturned
    /\ \A i \in SampleRange : callArgs.dataArray[i] = callArgs.dataArray[0]

\* | mean - c | <= g(n) |c| and | variance | <= 2 g(2n + 2) c^2, with
\* g(k) = k u / (1 - k u) and u = 2^-bits the unit roundoff.
ConstantWithinTolerance(bits, c, n, mean, variance) ==
    LET k == 2 * n + 2
    IN  /\ Magnitude(Numerator(mean) * Denominator(c) - Numerator(c) * Denominator(mean))
                * (2^bits - n)
              <= n * Magnitude(Numerator(c)) * Denominator(mean)
        /\ Magnitude(Numerator(variance)) * Denominator(c) * Denominator(c) * (2^bits - k)
              <= 2 * k * Numerator(c) * Numerator(c) * Denominator(variance)

\* C15 as claimed: for a constant array the routine returns mean == c and
\* variance == 0.
C15_ConstantSamplesExact ==
    ConstantSamples =>
        /\ callResult.mean = callArgs.dataArray[0]
        /\ callResult.variance = FloatValue(0, 0)

\* C15 as amended: for a constant array the mean and the variance returned
\* differ from c and from 0 by rounding error at most.
C15_ConstantSamplesWithinTolerance ==
    ConstantSamples =>
        ConstantWithinTolerance(MantissaBits(callArgs.type), callArgs.dataArray[0],
                                callArgs.dataArraySize, callResult.mean,
                                callResult.variance)

\* Three equal samples for which the variance returned is not zero.
C15_Witness ==
    /\ ConstantSamples
    /\ callArgs.dataArraySize = 3
    /\ callResult.mean = callArgs.dataArray[0]
    /\ callResult.variance # FloatValue(0, 0)

\* A call of the multi-dimensional routine has returned.
MultiDimensionalReturned ==
    /\ callResult # NoCall
    /\ callArgs.routine = "calculateMeanAndVarianceOfMultiDimensionalSamples"

\* Column jj of the matrix of the call, as an array of dataArrayRows samples.
ColumnVector(jj) ==
    [ii \in 0..(callArgs.dataArrayRows - 1) |-> callArgs.dataArray[ii][jj]]

\* C18: for every column jj below dataArrayColumns, meanValueArray[jj] and
\* varianceArray[jj] are what the one-dimensional routine returns for the
\* column taken as an array (so no other column has a part in them), and
\* the entries of both arrays from dataArrayColumns on are left as the
\* caller had them.
C18_MultiDimensionalIsPerColumn ==
    MultiDimensionalReturned =>
        \A jj \in DOMAIN callArgs.meanValueArray :
            IF jj < callArgs.dataArrayColumns
            THEN LET single == calculateMeanAndVarianceOfSamples(
                                   callArgs.type, ColumnVector(jj), callArgs.dataArrayRows)
                 IN  /\ callResult.meanValueArray[jj] = single.mean
                     /\ callResult.varianceArray[jj] = single.variance
            ELSE /\ callResult.meanValueArray[jj] = callArgs.meanValueArray[jj]
                 /\ callResult.varianceArray[jj] = callArgs.varianceArray[jj]

\* Two rows and two columns with different means; the third entry of both
\* output arrays is the caller's.
C18_Witness ==
    /\ MultiDimensionalReturned
    /\ callArgs.dataArrayRows = 2
    /\ callArgs.dataArrayColumns = 2
    /\ callResult.meanValueArray[0] = FloatValue(3, 0)
    /\ callResult.meanValueArray[1] = FloatValue(7, 0)
    /\ callResult.varianceArray[0] = FloatValue(16, 0)
    /\ callResult.varianceArray[1] = FloatValue(0, 0)
    /\ callResult.meanValueArray[2] = CallerValue
    /\ callResult.varianceArray[2] = CallerValue

\* ---- quantile (SpecQuantile)

\* x < y and x <= y as numbers.
Less(x, y) == Numerator(x) * Denominator(y) < Numerator(y) * Denominator(x)
AtMost(x, y) == Numerator(x) * Denominator(y) <= Numerator(y) * Denominator(x)

\* A call of the quantile routine has returned.
QuantileReturned ==
    /\ callResult # NoCall
    /\ callArgs.routine = "calculatePercentageQuantileOfSamples"
    /\ ~callResult.crashed

\* value is element number index (from 0) of the samples put in ascending
\* order: at most index samples are smaller than it and more than index
\* samples are not greater.
IsOrderStatistic(samples, value, index) ==
    /\ \E i \in DOMAIN samples : samples[i] = value
    /\ Cardinality({ i \in DOMAIN samples : Less(samples[i], value) }) <= index
    /\ Cardinality({ i \in DOMAIN samples : AtMost(samples[i], value) }) > index

\* The integer part of a value that is not negative.
Floor(x) == Numerator(x) \div Denominator(x)

\* C16: for n >= 1 and 0 <= q < 1 the routine returns the element at index
\* floor(q * n) of the samples in ascending order, q * n being the product
\* in the routine's floating-point type: the index is the integer part of
\* the exact product, or the next integer when the product rounds up to it;
\* it lies in 0..n-1 and the result is one of the samples.
C16_QuantileIsNearestRank ==
    (QuantileReturned /\ Less(callArgs.quantilePercentage, FloatValue(1, 0))) =>
        LET bits    == MantissaBits(callArgs.type)
            q       == callArgs.quantilePercentage
            n       == callArgs.dataArraySize
            product == FloatMul(bits, q, FloatFromSize(bits, n))
            exact   == (Numerator(q) * n) \div Denominator(q)
        IN  /\ callResult.index = Floor(product)
            /\ \/ callResult.index = exact
               \/ callResult.index = exact + 1 /\ Denominator(product) = 1
            /\ callResult.index \in 0..(n - 1)
            /\ callResult.withinCopy
            /\ IsOrderStatistic(callArgs.dataArray, callResult.quantile, callResult.index)

\* q = 2/3 rounded, n = 3 and the samples 3, -1, 2: index 2 and result 3.
C16_Witness ==
    /\ QuantileReturned
    /\ callArgs.previous = NoCall
    /\ callArgs.dataArray = (0 :> FloatValue(3, 0) @@ 1 :> FloatValue(-1, 0) @@ 2 :> FloatValue(2, 0))
    /\ callArgs.quantilePercentage = RoundToNearestEven(MantissaBits(callArgs.type), 2, 3, 0)
    /\ callResult.index = 2
    /\ callResult.quantile = FloatValue(3, 0)

\* C17: when the routine is called on one array with fractions p1 <= p2, and
\* both indices lie within the array, the first result is at most the
\* second.
C17_QuantileMonotone ==
    (QuantileReturned /\ callArgs.previous # NoCall) =>
        LET first == callArgs.previous
        IN  (/\ AtMost(first.quantilePercentage, callArgs.quantilePercentage)
             /\ first.result.withinCopy
             /\ callResult.withinCopy)
                => AtMost(first.result.quantile, callResult.quantile)

\* Two calls on unsorted samples with p1 < p2 and different results.
C17_Witness ==
    /\ QuantileReturned
    /\ callArgs.previous # NoCall
    /\ callArgs.dataArray = (0 :> FloatValue(3, 0) @@ 1 :> FloatValue(-1, 0) @@ 2 :> FloatValue(2, 0))
    /\ Less(callArgs.previous.quantilePercentage, callArgs.quantilePercentage)
    /\ callArgs.previous.result.quantile = FloatValue(-1, 0)
    /\ callResult.withinCopy
    /\ callResult.quantile = FloatValue(3, 0)

\* ---- the JSON output (SpecPrintJSON)

PrintJSONReturned ==
    /\ callArgs.routine = "printJSONFormattedOutput"
    /\ callResult # NoCall

\* The plot the claim expects for the output at an index.
ExpectedPlot(index) ==
    [variableSymbol |-> <<"outputVariables", index>>,
     variableDescription |-> callArgs.outputVariableDescriptions[index],
     values |-> [jj \in 1..callArgs.arguments.numberOfMonteCarloIterations |->
                    IF callArgs.arguments.isMonteCarloMode
                    THEN callArgs.monteCarloOutputSamples[jj - 1]
                    ELSE callArgs.outputVariables[index]]]

\* C19: with outputSelect equal to the number of output variables all the
\* outputs are printed, indices 0..N-1 in order; otherwise exactly one output
\* is printed, the one at index outputSelect; each printed variable carries
\* numberOfMonteCarloIterations values, the Monte Carlo samples in Monte Carlo
\* mode and the entry of outputVariables at its index otherwise.
C19_PrintsSelectedOutputs ==
    PrintJSONReturned =>
        LET numberOfOutputVariables == callArgs.numberOfOutputVariables
            outputSelect == callArgs.arguments.outputSelect
            printed == callResult.printed
        IN  IF outputSelect = numberOfOutputVariables
            THEN printed = [kk \in 1..numberOfOutputVariables |-> ExpectedPlot(kk - 1)]
            ELSE /\ Len(printed) = 1
                 /\ printed[1].variableSymbol = <<"outputVariables", outputSelect>>
                 /\ Len(printed[1].values) =
                        callArgs.arguments.numberOfMonteCarloIterations
                 /\ outputSelect < numberOfOutputVariables =>
                        printed[1] = ExpectedPlot(outputSelect)

\* The same for the calls whose outputSelect is not greater than the number
\* of output variables.
PrintsSelectedOutputsWithinRange ==
    (/\ PrintJSONReturned
     /\ callArgs.arguments.outputSelect <= callArgs.numberOfOutputVariables)
        => C19_PrintsSelectedOutputs

\* ---- the header validator (SpecHeader)

\* The number of leading whitespace characters of f.
LeadingWhitespace(f) ==
    Cardinality({ k \in 1..Len(f) : \A j \in 1..k : safeIsspace(f[j]) })

\* Token f, its leading whitespace removed, begins with name and holds only
\* whitespace after it.
HeaderTokenMatches(f, name) ==
    LET a == LeadingWhitespace(f)
    IN  /\ a + Len(name) <= Len(f)
        /\ \A k \in 1..Len(name) : f[a + k] = name[k]
        /\ \A k \in (a + Len(name) + 1)..Len(f) : safeIsspace(f[k])

\* The row splits into exactly as many tokens as expected headers, and
\* token i matches expected header i.
HeaderRowMatches(row, expected) ==
    LET tokens == TokensOf(row)
    IN  /\ Len(tokens) = Len(expected)
        /\ \A i \in 1..Len(tokens) : HeaderTokenMatches(tokens[i], expected[i])

\* The validator succeeds exactly on the matching rows.
HeaderSuccessIffMatch ==
    callResult # NoCall =>
        (callResult.returnCode = kCommonConstantReturnTypeSuccess
            <=> HeaderRowMatches(callArgs.actualHeaderRow, callArgs.expectedHeaders))

\* The row was made by changing a non-whitespace character of a row that
\* had passed validation.
AlteredMatchingRow ==
    /\ callResult # NoCall
    /\ callArgs.alteredAt > 0
    /\ callArgs.before = kCommonConstantReturnTypeSuccess
    /\ ~safeIsspace(callArgs.replaced)

\* The character changed was a comma that strtok_r skips: the first or last
\* character of the row, or next to another comma.
AlteredRedundantComma ==
    LET row == callArgs.actualHeaderRow
        i   == callArgs.alteredAt
    IN  /\ callArgs.replaced = ","
        /\ \/ i = 1
           \/ i = Len(row)
           \/ row[i - 1] = ","
           \/ row[i + 1] = ","

\* C5 as claimed: the validator succeeds exactly on the matching rows, and
\* changing any one non-whitespace character of a matching row makes
\* validation fail.
C5_AnyAlteredCharacterFails ==
    /\ HeaderSuccessIffMatch
    /\ AlteredMatchingRow =>
          callResult.returnCode = kCommonConstantReturnTypeError

\* C5 as amended: the validator succeeds exactly on the matching rows
\* (tokens as strtok_r yields them, empty fields skipped), and changing any
\* one non-whitespace character of a matching row, other than a comma that
\* strtok_r skips, makes validation fail.
C5_AlteredCharacterFailsUnlessRedundantComma ==
    /\ HeaderSuccessIffMatch
    /\ (AlteredMatchingRow /\ ~AlteredRedundantComma) =>
          callResult.returnCode = kCommonConstantReturnTypeError

\* A header name character of a matching two-column row with padding was
\* changed, and validation failed on column 1.
C5_Witness ==
    /\ AlteredMatchingRow
    /\ callArgs.expectedHeaders = << <<"a">>, <<"b">> >>
    /\ callArgs.replaced = "b"
    /\ callArgs.actualHeaderRow = <<" ", "a", ",", "a">>
    /\ callResult.returnCode = kCommonConstantReturnTypeError
    /\ callResult.column = 1

\* The row has a number of tokens other than the number of expected headers.
HeaderCountMismatch ==
    Len(TokensOf(callArgs.actualHeaderRow)) # Len(callArgs.expectedHeaders)

\* The columns, counted from 1, that have both a token and an expected
\* header and whose token does not match the header.
HeaderTextMismatches ==
    LET tokens == TokensOf(callArgs.actualHeaderRow)
    IN  { i \in 1..Len(tokens) :
            /\ i <= Len(callArgs.expectedHeaders)
            /\ ~HeaderTokenMatches(tokens[i], callArgs.expectedHeaders[i]) }

ReportsCountError ==
    callResult.diagnostic \in {"lessHeaderValues", "moreHeaderValues"}

ReportsTextError ==
    callResult.diagnostic \in {"headerMismatch", "trailingCharacters"}

\* C20 as claimed: a header row with both a wrong number of tokens and a
\* token that does not match its expected header is reported as a
\* column-count error, not as a text error.
C20_CountErrorBeforeTextError ==
    (/\ callResult # NoCall
     /\ HeaderCountMismatch
     /\ HeaderTextMismatches # {})
        => /\ callResult.returnCode = kCommonConstantReturnTypeError
           /\ ReportsCountError

\* C20 as amended: a header row with a wrong number of tokens fails; if one
\* of its tokens does not match its expected header the text error of the
\* first such column is reported and not the count error; the count error
\* (too few or too many, as the case is) is reported only when every token
\* that has an expected header matches it.
C20_FirstErrorInColumnOrder ==
    (/\ callResult # NoCall
     /\ HeaderCountMismatch)
        => /\ callResult.returnCode = kCommonConstantReturnTypeError
           /\ IF HeaderTextMismatches # {}
              THEN /\ ReportsTextError
                   /\ callResult.column + 1 \in HeaderTextMismatches
                   /\ \A i \in HeaderTextMismatches : callResult.column + 1 <= i
              ELSE callResult.diagnostic =
                       IF Len(TokensOf(callArgs.actualHeaderRow))
                              < Len(callArgs.expectedHeaders)
                       THEN "lessHeaderValues"
                       ELSE "moreHeaderValues"

\* A row of one token where two headers are expected, the token not the
\* first header: the text error of column 0 was reported.
C20_Witness ==
    /\ callResult # NoCall
    /\ callArgs.actualHeaderRow = <<"b">>
    /\ callArgs.expectedHeaders = << <<"a">>, <<"b">> >>
    /\ HeaderCountMismatch
    /\ HeaderTextMismatches = {1}
    /\ callResult.diagnostic = "headerMismatch"
    /\ callResult.column = 0

\* A row of three tokens where two headers are expected, the first token
\* not the first header: the text error of column 0 was reported.
C20_WitnessTooMany ==
    /\ callResult # NoCall
    /\ callArgs.actualHeaderRow = <<"b", ",", "b", ",", "a">>
    /\ callArgs.expectedHeaders = << <<"a">>, <<"b">> >>
    /\ HeaderCountMismatch
    /\ HeaderTextMismatches = {1}
    /\ callResult.diagnostic = "headerMismatch"
    /\ callResult.column = 0

\* ---- the row cursor, the flags and the file of the read (Spec)

\* The read has returned success.  (With no columns the read returns at once,
\* before it has a row cursor.)
ReadSucceeded ==
    /\ numberOfDistributions >= 1
    /\ pc = "done"
    /\ returnCode = kCommonConstantReturnTypeSuccess

\* A step that takes the row cursor from -1 takes it to 0, on the first line
\* of the file, which matches the expected headers; a step from a row cursor
\* other than -1 never brings it back to -1.
HeaderTransitionStep ==
    /\ (rowCount = -1 /\ rowCount' # -1) =>
          /\ rowCount' = 0
          /\ Len(linesRead') = 1
          /\ HeaderRowMatches(linesRead'[1], expectedHeaders)
    /\ rowCount # -1 => rowCount' # -1

\* C21: in every read that returns success the row cursor has gone from -1
\* to 0 exactly once, and only on a header row that matched the expected
\* headers; no read returns success with the row cursor still at -1.
C21_SuccessOnlyAfterHeader ==
    /\ [](ReadSucceeded => rowCount >= 0)
    /\ [][HeaderTransitionStep]_vars

\* The field holds the marker "Ux".
HoldsMarker(f) ==
    \E i \in 1..(Len(f) - 1) : SubSeq(f, i, i + 1) = <<"U", "x">>

\* A step leaves a flag that is true true, and makes a flag true only while
\* it processes the first data row (row cursor 0), whose token for the column
\* holds the marker.
UxFlagStep ==
    \A c \in Columns :
        (c \in DOMAIN uxColumns /\ c \in DOMAIN uxColumns') =>
            /\ uxColumns[c] => uxColumns'[c]
            /\ (~uxColumns[c] /\ uxColumns'[c]) =>
                  /\ rowCount = 0
                  /\ Len(linesRead') = Len(linesRead) + 1
                  /\ LET tokens == TokensOf(linesRead'[Len(linesRead')])
                     IN  /\ c < Len(tokens)
                         /\ HoldsMarker(tokens[c + 1])

\* C22: a column's flag becomes true only while the first data row is
\* processed and only because that row's token for the column holds "Ux";
\* once true it never becomes false, and a flag that is false after row 0
\* stays false whatever the later tokens of the column hold.
C22_UxFlagSetOnlyOnFirstRow == [][UxFlagStep]_vars

\* Two data rows were accepted; column 1 was flagged on row 0, and column 0
\* was not although its token on row 1 holds the marker.
C22_Witness ==
    /\ numberOfDistributions = 2
    /\ rowCount = 2
    /\ ~uxColumns[0]
    /\ uxColumns[1]
    /\ HoldsMarker(TokensOf(DataRowsRead[1])[2])
    /\ ~HoldsMarker(TokensOf(DataRowsRead[1])[1])
    /\ HoldsMarker(TokensOf(DataRowsRead[2])[1])

\* Every token before token number c of the row is a number or the ignore
\* pattern: the loop over the row gets to token c.
PrecedingTokensAccepted(tokens, c) ==
    \A k \in 1..c : IsNumberField(tokens[k]) \/ IsIgnoreField(tokens[k])

\* The marker tokens of the row that a DataRowStep on the first data row
\* gets to.
MarkerTokensReached ==
    LET tokens == TokensOf(linesRead'[Len(linesRead')])
    IN  { c \in Columns :
            /\ c < Len(tokens)
            /\ HoldsMarker(tokens[c + 1])
            /\ PrecedingTokensAccepted(tokens, c) }

\* C23 as claimed: a token of the first data row that holds the marker
\* classifies its column as distribution and is neither given to the numeric
\* parser nor stored: it cannot make the read fail and the fill count of the
\* column stays 0.
C23_MarkerTokenStep ==
    (DataRowStep /\ rowCount = 0) =>
        \A c \in MarkerTokensReached :
            /\ uxColumns'[c]
            /\ <<0, c>> \notin parserCalls'
            /\ <<0, c, 0>> \notin sampleWrites'
            /\ sampleCounts'[c] = 0
            /\ diagnostic' # "notANumber"

C23_MarkerTokenNotParsedNorStored == [][C23_MarkerTokenStep]_vars

\* C23 as amended: a token of the first data row that holds the marker
\* classifies its column as distribution and is given to the numeric parser
\* like any other token: with a numeric prefix its value is stored as sample
\* 0 of the column and the fill count becomes 1; without one the read fails
\* as for any token that is not a number.
C23_MarkerTokenParsedStep ==
    (DataRowStep /\ rowCount = 0) =>
        LET tokens == TokensOf(linesRead'[Len(linesRead')])
        IN  \A c \in MarkerTokensReached :
               /\ uxColumns'[c]
               /\ <<0, c>> \in parserCalls'
               /\ IF IsNumberField(tokens[c + 1])
                  THEN /\ sampleCounts'[c] = 1
                       /\ inputSampleValues'[c][0] = NumberValue(tokens[c + 1])
                       /\ <<0, c, 0>> \in sampleWrites'
                  ELSE /\ sampleCounts'[c] = 0
                       /\ returnCode' = kCommonConstantReturnTypeError
                       /\ diagnostic' = "notANumber"
                       /\ pc' = "cleanup"

C23_MarkerTokenParsedAndStored == [][C23_MarkerTokenParsedStep]_vars

\* The first data row was the marker alone, and the read failed on it as on
\* a token that is not a number.
C23_Witness ==
    /\ numberOfDistributions = 1
    /\ Len(linesRead) = 2
    /\ TokensOf(linesRead[2]) = << <<"U", "x", "\n">> >>
    /\ uxColumns[0]
    /\ <<0, 0>> \in parserCalls
    /\ sampleCounts[0] = 0
    /\ diagnostic = "notANumber"
    /\ returnCode = kCommonConstantReturnTypeError

\* The first data row held a marker token with a numeric prefix, which was
\* parsed and stored as sample 0 of its column.
C23_WitnessStored ==
    /\ numberOfDistributions = 1
    /\ rowCount = 1
    /\ HoldsMarker(TokensOf(linesRead[2])[1])
    /\ uxColumns[0]
    /\ <<0, 0>> \in parserCalls
    /\ sampleCounts[0] = 1
    /\ inputSampleValues[0][0] = 2

\* ---- the quantile index and the caller's array (SpecQuantile)

\* A call of the quantile routine was made, whether or not the read at the
\* index let it return.
QuantileCalled ==
    /\ callResult # NoCall
    /\ callArgs.routine = "calculatePercentageQuantileOfSamples"

\* C24: for n >= 1 the index lies in 0..n-1 for every fraction 0 <= q < 1;
\* for q = 1 exactly the index is n, one past the last element of the sorted
\* copy, and the element is read at that index as it is, not at n-1.
C24_IndexWithinCopyUnlessOne ==
    QuantileCalled =>
        LET q == callArgs.quantilePercentage
            n == callArgs.dataArraySize
        IN  /\ n >= 1
            /\ AtMost(FloatValue(0, 0), q)
            /\ IF Less(q, FloatValue(1, 0))
               THEN /\ callResult.index \in 0..(n - 1)
                    /\ callResult.withinCopy
               ELSE /\ q = FloatValue(1, 0)
                    /\ callResult.index = n
                    /\ ~callResult.withinCopy

\* The fraction 1 on three samples: the index is 3 and the call returned a
\* value that was not read from the copy.
C24_Witness ==
    /\ QuantileCalled
    /\ callArgs.quantilePercentage = FloatValue(1, 0)
    /\ callArgs.dataArraySize = 3
    /\ callResult.index = 3
    /\ ~callResult.withinCopy
    /\ ~callResult.crashed

\* ---- the bounds of the row cursor and of the fill counts (Spec)

\* The row cursor lies between -1 and the capacity, no fill count is greater
\* than the number of data rows started, and every write into a sample
\* buffer was at an index below the capacity.
RowCursorAndFillCountsBounded ==
    /\ rowCount >= -1
    /\ rowCount <= kCommonConstantMaxNumberOfInputSamples
    /\ \A c \in DOMAIN sampleCounts : sampleCounts[c] <= Len(DataRowsRead)
    /\ \A write \in sampleWrites :
          /\ write[3] >= 0
          /\ write[3] < kCommonConstantMaxNumberOfInputSamples

\* The row cursor never decreases; it changes by one, and only in a step that
\* reads a line and accepts it (the validated header or a data row accepted
\* in full), and every such step changes it.
RowCursorStep ==
    /\ rowCount' >= rowCount
    /\ rowCount' # rowCount =>
          /\ rowCount' = rowCount + 1
          /\ Len(linesRead') = Len(linesRead) + 1
          /\ pc' = "loop"
          /\ diagnostic' = "none"
          /\ IF rowCount = -1
             THEN HeaderRowMatches(linesRead'[1], expectedHeaders)
             ELSE TokenCount(linesRead'[Len(linesRead')]) = numberOfDistributions
    /\ (Len(linesRead') = Len(linesRead) + 1 /\ pc' = "loop") =>
          rowCount' = rowCount + 1

\* C25: in every state of a read -1 <= rowCount <= capacity; rowCount grows
\* by exactly one per validated header or accepted data row and never
\* decreases; no fill count exceeds the number of data rows started; hence
\* every write into a sample buffer, the zero of an ignored token included,
\* is at an index below the capacity.
C25_RowCursorAndWritesBounded ==
    /\ []RowCursorAndFillCountsBounded
    /\ [][RowCursorStep]_vars

\* The file held as many data rows as the capacity: one column is full to
\* its last slot, and in another every row was ignored and wrote its zero
\* at index 0.
C25_Witness ==
    /\ numberOfDistributions = 2
    /\ rowCount = kCommonConstantMaxNumberOfInputSamples
    /\ sampleCounts[0] = kCommonConstantMaxNumberOfInputSamples
    /\ <<rowCount - 1, 0, kCommonConstantMaxNumberOfInputSamples - 1>> \in sampleWrites
    /\ sampleCounts[1] = 0
    /\ <<rowCount - 1, 1, 0>> \in sampleWrites
    /\ <<rowCount - 1, 1>> \notin parserCalls

\* ---- parseArgs (SpecParseArgs)

ParseArgsReturned ==
    /\ callArgs.routine = "parseArgs"
    /\ callResult # NoCall
    /\ callResult.stage = "returned"

ParseArgsSucceeded ==
    /\ ParseArgsReturned
    /\ callResult.returnCode = kCommonConstantReturnTypeSuccess

\* The ways of writing the options that take an argument in the next element,
\* the JSON flag, the benchmarking flag and -M.
ArgumentOptionForms ==
    { <<"-", "i">>, <<"-", "-", "i", "n", "p", "u", "t">>, <<"-", "o">>, <<"-", "-", "o", "u", "t", "p", "u", "t">>, <<"-", "S">>, <<"-", "-", "s", "e", "l", "e", "c", "t", "-", "o", "u", "t", "p", "u", "t">>, <<"-", "M">>, <<"-", "-", "m", "u", "l", "t", "i", "p", "l", "e", "-", "e", "x", "e", "c", "u", "t", "i", "o", "n", "s">> }
JSONFlagForms == { <<"-", "j">>, <<"-", "-", "j", "s", "o", "n">> }
BenchmarkingFlagForms == { <<"-", "b">>, <<"-", "-", "b", "e", "n", "c", "h", "m", "a", "r", "k", "i", "n", "g">> }
MultipleExecutionsForms == { <<"-", "M">>, <<"-", "-", "m", "u", "l", "t", "i", "p", "l", "e", "-", "e", "x", "e", "c", "u", "t", "i", "o", "n", "s">> }

\* The positions of the command line, from position i on, whose element
\* stands as an option: not the argument of the option before it and not
\* behind "--".
RECURSIVE OptionPositionsFrom(_, _)
OptionPositionsFrom(argv, i) ==
    IF i > Len(argv) \/ argv[i] = <<"-", "-">> THEN {}
    ELSE {i} \cup OptionPositionsFrom(argv, IF argv[i] \in ArgumentOptionForms
                                            THEN i + 2 ELSE i + 1)

OptionPositions == OptionPositionsFrom(callArgs.argv, 1)

\* The flag is given: one of its forms stands as an option.
FlagGiven(forms) == \E i \in OptionPositions : callArgs.argv[i] \in forms

\* C26: parseArgs never returns success with both isOutputJSONMode and
\* isBenchmarkingMode true; whenever the JSON flag and the benchmarking flag
\* are both given, in any order and with any other options, it returns the
\* error result.
C26_JSONExcludesBenchmarking ==
    /\ ParseArgsSucceeded =>
          ~(callResult.arguments.isOutputJSONMode
               /\ callResult.arguments.isBenchmarkingMode)
    /\ (ParseArgsReturned /\ FlagGiven(JSONFlagForms) /\ FlagGiven(BenchmarkingFlagForms))
          => callResult.returnCode = kCommonConstantReturnTypeError

\* -T, -b and --json: every option was accepted, both modes were set, and
\* the call returned the error of the two modes together.
C26_Witness ==
    /\ ParseArgsReturned
    /\ callArgs.argv = << <<"-", "T">>, <<"-", "b">>, <<"-", "-", "j", "s", "o", "n">> >>
    /\ callResult.found = {4, 7, 9}
    /\ callResult.arguments.isOutputJSONMode
    /\ callResult.arguments.isBenchmarkingMode
    /\ callResult.returnCode = kCommonConstantReturnTypeError
    /\ callResult.diagnostic = "jsonWithBenchmarking"

\* The arguments given to -M, in the order of the command line: the next
\* element, or the text after "=".
RECURSIVE MultipleExecutionsArgumentsFrom(_, _)
MultipleExecutionsArgumentsFrom(argv, i) ==
    IF i > Len(argv) \/ argv[i] = <<"-", "-">> THEN <<>>
    ELSE IF argv[i] \in MultipleExecutionsForms /\ i < Len(argv)
    THEN <<argv[i + 1]>> \o MultipleExecutionsArgumentsFrom(argv, i + 2)
    ELSE IF \E form \in MultipleExecutionsForms :
                IsPrefix(form \o <<"=">>, argv[i])
    THEN <<SubSeq(argv[i], EqualsPosition(argv[i]) + 1, Len(argv[i]))>>
            \o MultipleExecutionsArgumentsFrom(argv, i + 1)
    ELSE MultipleExecutionsArgumentsFrom(argv, IF argv[i] \in ArgumentOptionForms
                                               THEN i + 2 ELSE i + 1)

MultipleExecutionsArguments == MultipleExecutionsArgumentsFrom(callArgs.argv, 1)

\* C27: whenever parseArgs returns success, whatever *arguments held before:
\* numberOfMonteCarloIterations >= 1; isSingleShotExecution is the negation
\* of isMonteCarloMode; isMonteCarloMode implies isTimingEnabled;
\* isMonteCarloMode is true exactly when -M was given, and then
\* numberOfMonteCarloIterations is the positive integer of its (last)
\* argument, and otherwise it is 1.
C27_MonteCarloFieldsConsistent ==
    ParseArgsSucceeded =>
        LET a == callResult.arguments
            given == MultipleExecutionsArguments
        IN  /\ a.numberOfMonteCarloIterations >= 1
            /\ a.isSingleShotExecution = ~a.isMonteCarloMode
            /\ a.isMonteCarloMode => a.isTimingEnabled
            /\ a.isMonteCarloMode <=> given # <<>>
            /\ IF given # <<>>
               THEN a.numberOfMonteCarloIterations = PrefixValue(given[Len(given)])
               ELSE a.numberOfMonteCarloIterations = 1

\* -M 3 after a call that had left every field set: Monte Carlo mode with
\* three iterations, timing on, single shot off.
C27_Witness ==
    /\ ParseArgsSucceeded
    /\ callArgs.arguments = LeftoverCommandLineArguments
    /\ callArgs.argv = << <<"-", "M">>, <<"3">>, <<"-", "j">> >>
    /\ callResult.arguments.isMonteCarloMode
    /\ callResult.arguments.numberOfMonteCarloIterations = 3
    /\ callResult.arguments.isTimingEnabled
    /\ ~callResult.arguments.isSingleShotExecution
    /\ ~callResult.arguments.isBenchmarkingMode

\* No -M after a call that had left every field set: the defaults.
C27_WitnessDefaults ==
    /\ ParseArgsSucceeded
    /\ callArgs.arguments = LeftoverCommandLineArguments
    /\ callArgs.argv = << <<"-", "b">> >>
    /\ ~callResult.arguments.isMonteCarloMode
    /\ callResult.arguments.numberOfMonteCarloIterations = 1
    /\ callResult.arguments.isSingleShotExecution


\* ============================================== the file of the read (Spec)

\* C28: every file that the CSV read opens is closed before the read
\* returns, on the success path and on every error path taken after the
\* file was opened: in no state in which the read has returned is the
\* file still open.
C28_FileClosedOnReturn == pc = "done" => fp # "open"


\* =================================== the indices of the JSON output (SpecPrintJSON)

\* C29: for every outputSelect that a successful parseArgs can produce (any
\* integer that is not negative) and every numberOfOutputVariables >= 1,
\* printJSONFormattedOutput accesses jsonVariables, outputVariables and
\* outputVariableDescriptions only at indices in
\* [0, numberOfOutputVariables).
C29_IndicesWithinArrays ==
    PrintJSONReturned =>
        callResult.indices \subseteq 0..(callArgs.numberOfOutputVariables - 1)


\* ===================================== the caller's array (SpecQuantile)

====
